---- MODULE Spec2Model ----
(***************************************************************************)
(* ARIA python-engine: the interpreter gate, the deterministic router, the *)
(* SQL guard, the tool executor and the agentic loop of agent.py, as a     *)
(* state machine.                                                          *)
(*                                                                         *)
(* Text is modelled as a sequence of characters (one-character strings),   *)
(* so that strip(), upper(), startswith() and re.split() are computed.     *)
(* Confidence values are integers in hundredths (75 is 0.75).              *)
(***************************************************************************)
EXTENDS Integers, Sequences, FiniteSets, TLC

\* ------------------------------------------------------------------------
\* Bounds of the model
\* ------------------------------------------------------------------------
MaxPad == 1
MaxToolCalls == 1
MaxWrites == 2
MaxMisfire == 1
MaxHung == 1

\* ------------------------------------------------------------------------
\* Program constants
\* ------------------------------------------------------------------------
MAX_ITERATIONS == 3
HISTORY_SLIM == 2
HISTORY_FULL == 6
CHUNK_SIZE == 6
INTERPRETER_FAIL_THRESHOLD == 3
ROW_CAP == 50
CONF_CUTOFF == 75
FOLLOWUP_CONF == 85
MAX_WORKERS == 4
HISTORY_CHARS == 500
HISTORY_CUT == 497

\* ------------------------------------------------------------------------
\* Characters and strings
\* ------------------------------------------------------------------------
Lowers == <<"a","b","c","d","e","f","g","h","i","j","k","l","m",
            "n","o","p","q","r","s","t","u","v","w","x","y","z">>
Uppers == <<"A","B","C","D","E","F","G","H","I","J","K","L","M",
            "N","O","P","Q","R","S","T","U","V","W","X","Y","Z">>

LowerSet == {Lowers[i] : i \in 1..26}

UpperSet == {Uppers[i] : i \in 1..26}

UpperOf == [c \in LowerSet |-> Uppers[CHOOSE i \in 1..26 : Lowers[i] = c]]

LowerOf == [c \in UpperSet |-> Lowers[CHOOSE i \in 1..26 : Uppers[i] = c]]

\* str.upper() on one character
UpperChar(c) == IF c \in LowerSet THEN UpperOf[c] ELSE c

\* str.lower() on one character
LowerChar(c) == IF c \in UpperSet THEN LowerOf[c] ELSE c

\* str.upper()
StrUpper(s) == [i \in 1..Len(s) |-> UpperChar(s[i])]

\* str.lower()
StrLower(s) == [i \in 1..Len(s) |-> LowerChar(s[i])]

\* first letter upper case, the rest lower case (used to build inputs)
Capitalised(s) == [i \in 1..Len(s) |-> IF i = 1 THEN UpperChar(s[i]) ELSE LowerChar(s[i])]

\* the characters str.strip() and the regex class \s remove
Whitespace == {" ", "\n", "\t"}

\* str.strip(): the text between the first and the last character that is not
\* whitespace
StrStrip(s) ==
  LET keep == {i \in 1..Len(s) : s[i] \notin Whitespace}
  IN IF keep = {} THEN <<>>
     ELSE SubSeq(s, CHOOSE i \in keep : \A j \in keep : i <= j,
                    CHOOSE i \in keep : \A j \in keep : i >= j)

\* str.startswith()
StartsWith(s, p) == Len(s) >= Len(p) /\ SubSeq(s, 1, Len(p)) = p

\* ------------------------------------------------------------------------
\* SQL guard: keywords
\* ------------------------------------------------------------------------
kwDROP == <<"D","R","O","P">>
kwDELETE == <<"D","E","L","E","T","E">>
kwINSERT == <<"I","N","S","E","R","T">>
kwUPDATE == <<"U","P","D","A","T","E">>
kwALTER == <<"A","L","T","E","R">>
kwCREATE == <<"C","R","E","A","T","E">>
kwTRUNCATE == <<"T","R","U","N","C","A","T","E">>
kwUNION == <<"U","N","I","O","N">>
kwPRAGMA == <<"P","R","A","G","M","A">>
kwATTACH == <<"A","T","T","A","C","H">>
kwDETACH == <<"D","E","T","A","C","H">>
kwVACUUM == <<"V","A","C","U","U","M">>
kwREINDEX == <<"R","E","I","N","D","E","X">>
kwLOAD_EXTENSION == <<"L","O","A","D","_","E","X","T","E","N","S","I","O","N">>
kwSELECT == <<"S","E","L","E","C","T">>
kwWITH == <<"W","I","T","H">>
kwSETTINGS == <<"S","E","T","T","I","N","G","S">>
kwINTO == <<"I","N","T","O">>
kwFROM == <<"F","R","O","M">>
kwMAIN == <<"M","A","I","N">>
kwREPLACE == <<"R","E","P","L","A","C","E">>

\* the variant with one keyword missing (a plausible slip in the set literal)
SQL_BLOCKED_TOKENS_NoUnion ==
  {kwDROP, kwDELETE, kwINSERT, kwUPDATE, kwALTER, kwCREATE, kwTRUNCATE,
   kwPRAGMA, kwATTACH, kwDETACH, kwVACUUM, kwREINDEX, kwLOAD_EXTENSION}

SQL_BLOCKED_TOKENS ==
  {kwDROP, kwDELETE, kwINSERT, kwUPDATE, kwALTER, kwCREATE, kwTRUNCATE,
   kwUNION, kwPRAGMA, kwATTACH, kwDETACH, kwVACUUM, kwREINDEX, kwLOAD_EXTENSION}

\* the characters of the class [\s;(),\[\]] of the tokeniser
SplitChars == Whitespace \cup {";", "(", ")", ",", "[", "]"}

\* set(re.split(r'[\s;(),\[\]]+', s)) with '' discarded: the maximal runs of
\* characters that are not separators
Tokenise(s) ==
  LET starts == {a \in 1..Len(s) :
                   s[a] \notin SplitChars /\ (a = 1 \/ s[a - 1] \in SplitChars)}
      ends == {b \in 1..Len(s) :
                 s[b] \notin SplitChars /\ (b = Len(s) \/ s[b + 1] \in SplitChars)}
      EndOf(a) == CHOOSE b \in ends : b >= a /\ \A k \in ends : k >= a => b <= k
  IN {SubSeq(s, a, EndOf(a)) : a \in starts}

\* ------------------------------------------------------------------------
\* What the SQLite engine sees in a statement: the identifier and keyword
\* words outside comments and quotes, and the double-quoted identifiers
\* ------------------------------------------------------------------------
Digits == {"0","1","2","3","4","5","6","7","8","9"}

IdentChars == LowerSet \cup UpperSet \cup Digits \cup {"_"}

\* the two characters of s at position i
Pair(s, i) == IF i + 1 <= Len(s) THEN <<s[i], s[i + 1]>> ELSE <<>>

\* what the scanner reads: a keyword or identifier word, a double-quoted
\* identifier, a string literal, a punctuation character
Item(k, v) == [k |-> k, v |-> v]

\* the scanner's state: its mode, the word being read, the items read so
\* far, and the position of the next character
LexState(m, c, it, n) == [lexMode |-> m, cur |-> c, items |-> it, pos |-> n]

\* the items read so far, the word being read included
Flushed(st) == IF st.cur = <<>> THEN st.items ELSE Append(st.items, Item("word", st.cur))

\* one step of the scanner, at position st.pos of s
LexStep(st, s) ==
  CASE st.lexMode = "code" /\ Pair(s, st.pos) = <<"/", "*">> ->
         LexState("block_comment", <<>>, Flushed(st), st.pos + 2)
    [] st.lexMode = "code" /\ Pair(s, st.pos) = <<"-", "-">> ->
         LexState("line_comment", <<>>, Flushed(st), st.pos + 2)
    [] st.lexMode = "code" /\ s[st.pos] = "'" ->
         LexState("string", <<>>, Flushed(st), st.pos + 1)
    [] st.lexMode = "code" /\ s[st.pos] = "\"" ->
         LexState("quoted_ident", <<>>, Flushed(st), st.pos + 1)
    [] st.lexMode = "code" /\ s[st.pos] \in IdentChars ->
         LexState("code", Append(st.cur, s[st.pos]), st.items, st.pos + 1)
    [] st.lexMode = "code" /\ s[st.pos] \in Whitespace ->
         LexState("code", <<>>, Flushed(st), st.pos + 1)
    [] st.lexMode = "code" ->
         LexState("code", <<>>, Append(Flushed(st), Item("punct", <<s[st.pos]>>)), st.pos + 1)
    [] st.lexMode = "block_comment" /\ Pair(s, st.pos) = <<"*", "/">> ->
         LexState("code", <<>>, st.items, st.pos + 2)
    [] st.lexMode = "line_comment" /\ s[st.pos] = "\n" ->
         LexState("code", <<>>, st.items, st.pos + 1)
    [] st.lexMode = "string" /\ s[st.pos] = "'" ->
         LexState("code", <<>>, Append(st.items, Item("string", st.cur)), st.pos + 1)
    [] st.lexMode = "quoted_ident" /\ s[st.pos] = "\"" ->
         LexState("code", <<>>, Append(st.items, Item("quoted", st.cur)), st.pos + 1)
    [] st.lexMode \in {"string", "quoted_ident"} ->
         LexState(st.lexMode, Append(st.cur, s[st.pos]), st.items, st.pos + 1)
    [] OTHER ->
         LexState(st.lexMode, <<>>, st.items, st.pos + 1)

RECURSIVE SqlLexAcc(_, _)
SqlLexAcc(s, st) == IF st.pos > Len(s) THEN st ELSE SqlLexAcc(s, LexStep(st, s))

UpperItems(it) == [i \in 1..Len(it) |-> Item(it[i].k, StrUpper(it[i].v))]

\* what the scan found, names upper-cased: a word still being read at the
\* end of the text counts; `complete` unless the text ends inside a comment
\* block, a string or a quoted identifier
LexResult(st) ==
  [items |-> UpperItems(IF st.lexMode = "code" THEN Flushed(st) ELSE st.items),
   complete |-> st.lexMode \in {"code", "line_comment"}]

SqlLex(s) == LexResult(SqlLexAcc(s, LexState("code", <<>>, <<>>, 1)))

ItemsOfKind(it, kind) ==
  LET kept == SelectSeq(it, LAMBDA x : x.k = kind)
  IN [i \in 1..Len(kept) |-> kept[i].v]

\* the keyword and identifier words of the statement, upper-cased
SqlWords(s) == ItemsOfKind(SqlLex(s).items, "word")

\* the double-quoted identifiers of the statement, upper-cased
SqlQuotedIdents(s) == ItemsOfKind(SqlLex(s).items, "quoted")

\* ------------------------------------------------------------------------
\* The store: per table, the number of committed mutations
\* ------------------------------------------------------------------------
kwNOTES == <<"N","O","T","E","S">>
kwCHAT_MESSAGES == <<"C","H","A","T","_","M","E","S","S","A","G","E","S">>

Tables == {"reminders", "spend_log", "notes", "automation_rules", "settings",
           "chat_messages", "other"}

NoTable == "none"

EmptyStore == [t \in Tables |-> 0]

TableOf(word) ==
  IF word = kwNOTES THEN "notes"
  ELSE IF word = kwSETTINGS THEN "settings"
  ELSE IF word = kwCHAT_MESSAGES THEN "chat_messages"
  ELSE "other"

Commit(st, table) == IF table = NoTable THEN st ELSE [st EXCEPT ![table] = @ + 1]

DmlWords == {kwINSERT, kwDELETE, kwUPDATE, kwREPLACE}

\* the table a statement with the words w writes: the first name after its
\* first INSERT, DELETE, UPDATE or REPLACE
WrittenTable(w) ==
  LET dml == {i \in 1..Len(w) : w[i] \in DmlWords}
      after == {j \in 1..Len(w) :
                  /\ \E i \in dml : i < j
                  /\ w[j] \notin {kwINTO, kwFROM, kwMAIN} \cup DmlWords}
  IN IF Len(w) > 0 /\ w[1] = kwWITH /\ after # {}
       THEN TableOf(w[CHOOSE j \in after : \A m \in after : j <= m])
       ELSE NoTable

\* conn.execute(sql_clean) on the read-write connection of _execute_sql:
\* sqlite3 opens its implicit transaction only for a statement whose first
\* word is INSERT, UPDATE, DELETE or REPLACE, so a data-modifying statement
\* behind a WITH clause runs in autocommit mode and is committed; a SELECT
\* changes nothing. The result is the table such a statement writes.
SqliteWriteTarget(stmt) == WrittenTable(SqlWords(stmt))

\* ------------------------------------------------------------------------
\* The statements the engine prepares and runs on this schema, among those
\* the model gives it; on any other it raises (syntax error, no such table)
\* ------------------------------------------------------------------------
W(x) == Item("word", x)

P(c) == Item("punct", <<c>>)

Q(x) == Item("quoted", x)

One == <<"1">>

Two == <<"2">>

kwAS == <<"A","S">>

kwA == <<"A">>

kwCREATED_AT == <<"C","R","E","A","T","E","D","_","A","T">>

Select1 == <<W(kwSELECT), W(One)>>

SelectStarFrom == <<W(kwSELECT), P("*"), W(kwFROM)>>

WithHead == <<W(kwWITH), W(kwA), W(kwAS), P("("), W(kwSELECT), W(One), P(")")>>

ReadableTables == {kwNOTES, kwSETTINGS}

\* a table name as SQLite resolves it: bare, schema-qualified or quoted
TableRefs(n) == {<<W(n)>>, <<W(kwMAIN), P("."), W(n)>>, <<Q(n)>>}

AliasWords == {kwNOTES, kwSETTINGS, kwCREATED_AT, kwREPLACE}

AcceptedItems(it) ==
  \/ it = Select1
  \/ /\ Len(it) = 3
     /\ SubSeq(it, 1, 2) = Select1
     /\ (it[3].k = "quoted" \/ it[3] \in {W(x) : x \in AliasWords})
  \/ it = Select1 \o <<W(kwUNION), W(kwSELECT), W(Two)>>
  \/ \E n \in ReadableTables : \E ref \in TableRefs(n) : it = SelectStarFrom \o ref
  \/ \E kw \in {kwINSERT, kwREPLACE} :
       it = WithHead \o <<W(kw), W(kwINTO), W(kwNOTES), W(kwSELECT), W(One)>>
  \/ it = WithHead \o <<W(kwDELETE), W(kwFROM), W(kwCHAT_MESSAGES)>>

Accepted(lexed) == lexed.complete /\ AcceptedItems(lexed.items)

SqliteAccepts(stmt) == Accepted(SqlLex(stmt))

\* ------------------------------------------------------------------------
\* _execute_sql
\* ------------------------------------------------------------------------
NoStmt == <<"<", "n", "o", "t", " ", "e", "x", "e", "c", "u", "t", "e", "d", ">">>

SqlRejected(err, blockedSet) ==
  [error |-> err, blocked |-> blockedSet, rows |-> 0, total |-> 0,
   has_total |-> FALSE, truncated |-> FALSE,
   executed |-> NoStmt, wrote |-> NoTable]

\* the cap applied to the rows kept, but not flagged
Capped_Unflagged(n) ==
  [rows |-> IF n > ROW_CAP THEN ROW_CAP ELSE n, total |-> n, truncated |-> FALSE]

\* `if len(rows) > 50: ... rows[:50], total, truncated`, else rows and total
Capped(n) ==
  [rows |-> IF n > ROW_CAP THEN ROW_CAP ELSE n, total |-> n, truncated |-> n > ROW_CAP]

\* dbRows: the number of rows the statement yields; dbFails: the engine
\* raises on a statement it accepts (locked database, disk error)
ExecuteSql(sql, dbRows, dbFails) ==
  LET sql_clean == StrStrip(sql)
      sql_upper == StrUpper(sql_clean)
      tokens == Tokenise(sql_upper)
      blocked == tokens \cap SQL_BLOCKED_TOKENS
  IN
  IF ~StartsWith(sql_upper, kwSELECT) /\ ~StartsWith(sql_upper, kwWITH)
    THEN SqlRejected("Only SELECT/WITH queries are allowed", {})
  ELSE IF blocked # {}
    THEN SqlRejected("Query contains forbidden keyword(s)", blocked)
  ELSE IF kwSETTINGS \in tokens
    THEN SqlRejected("Access to the settings table is not permitted", {})
  ELSE IF dbFails \/ ~SqliteAccepts(sql_clean)
    THEN [error |-> "sqlite error", blocked |-> {}, rows |-> 0, total |-> 0,
          has_total |-> FALSE, truncated |-> FALSE,
          executed |-> sql_clean, wrote |-> NoTable]
  ELSE [error |-> "", blocked |-> {},
        rows |-> Capped(dbRows).rows,
        total |-> Capped(dbRows).total, has_total |-> TRUE,
        truncated |-> Capped(dbRows).truncated,
        executed |-> sql_clean, wrote |-> SqliteWriteTarget(sql_clean)]


\* ------------------------------------------------------------------------
\* Write operations and the tool executor
\* ------------------------------------------------------------------------
ALLOWED_WRITE == {"reminders", "spend_log", "notes"}

\* _execute_write; idOk: data['id'] is truthy; dbFails: sqlite raises
ExecuteWrite(table, idOk, dbFails) ==
  IF dbFails
    THEN [error |-> "sqlite error", wrote |-> NoTable]
  ELSE IF table = "complete_reminder"
    THEN IF ~idOk
           THEN [error |-> "id required to complete reminder", wrote |-> NoTable]
           ELSE [error |-> "", wrote |-> "reminders"]
  ELSE IF table \notin ALLOWED_WRITE
    THEN [error |-> "Write is not permitted", wrote |-> NoTable]
  ELSE [error |-> "", wrote |-> table]

VALID_TRIGGERS == {"spend_over", "category_spike", "email_from",
                   "subscription_renewing", "reminder_overdue", "habit_streak_broken"}

VALID_ACTIONS == {"notify", "create_reminder", "flag_email"}

\* _create_automation_rule
CreateAutomationRule(trigger_type, action_type, dbFails) ==
  IF trigger_type \notin VALID_TRIGGERS
    THEN [error |-> "Unknown trigger_type", wrote |-> NoTable]
  ELSE IF action_type \notin VALID_ACTIONS
    THEN [error |-> "Unknown action_type", wrote |-> NoTable]
  ELSE IF dbFails
    THEN [error |-> "sqlite error", wrote |-> NoTable]
  ELSE [error |-> "", wrote |-> "automation_rules"]

\* _mark_item_done
MarkItemDone(idOk, item_type, dbFails) ==
  IF item_type \in {"reminder", "task"}
    THEN ExecuteWrite("complete_reminder", idOk, dbFails)
    ELSE [error |-> "Cannot mark as done", wrote |-> NoTable]

ToolNames ==
  {"query_database", "search_knowledge", "get_spending_analysis",
   "create_reminder", "add_expense", "save_note", "mark_item_done",
   "get_priorities", "create_automation_rule"}

\* A tool invocation: name, the SQL text (query_database), and the shape of
\* the other arguments: "ok" well-typed; "bad_type" a value whose conversion
\* or slicing raises (title = 5, amount = "abc", item_id = "x");
\* "zero_id" item_id = 0; "bad_item" item_type = "email";
\* "bad_trigger", "bad_action" values outside the closed enums.
ToolCall(n, s, a) == [name |-> n, sql |-> s, arg |-> a]

NoCall == ToolCall("", <<>>, "")

\* the environment of one invocation: what the database answers
ToolEnvs == [dbRows : {1}, dbFails : BOOLEAN]

\* what the caller of a handler sees of its result: the error of the payload,
\* and the table the handler committed to
Payload(r) == [error |-> r.error, wrote |-> r.wrote]

\* a branch of the dispatch returned the dict r
Returned(r) == [exc |-> FALSE, error |-> r.error, wrote |-> r.wrote]

\* a branch of the dispatch raised the exception e
Raised(e) == [exc |-> TRUE, error |-> e, wrote |-> NoTable]

\* the body of the try block of _execute_tool_inner. The arguments value
\* "not_dict" (a list, a number, null) has no .get(); the handlers that
\* hide their own exceptions return an error dict.
Dispatch(call, env) ==
  IF call.name \notin ToolNames
    THEN Returned([error |-> "Unknown tool", wrote |-> NoTable])
  ELSE IF call.arg = "not_dict"
    THEN Raised("AttributeError")
  ELSE IF call.name = "query_database"
    THEN Returned(Payload(ExecuteSql(call.sql, env.dbRows, env.dbFails)))
  ELSE IF call.name \in {"search_knowledge", "get_spending_analysis", "get_priorities"}
    THEN IF env.dbFails /\ call.name = "search_knowledge"
           THEN Raised("collaborator error")
           ELSE Returned([error |-> IF env.dbFails THEN "collaborator error" ELSE "",
                          wrote |-> NoTable])
  ELSE IF call.arg = "bad_type"
    THEN Raised("ValueError")
  ELSE IF call.name = "create_reminder"
    THEN Returned(ExecuteWrite("reminders", TRUE, env.dbFails))
  ELSE IF call.name = "add_expense"
    THEN Returned(ExecuteWrite("spend_log", TRUE, env.dbFails))
  ELSE IF call.name = "save_note"
    THEN Returned(ExecuteWrite("notes", TRUE, env.dbFails))
  ELSE IF call.name = "mark_item_done"
    THEN Returned(MarkItemDone(call.arg # "zero_id",
                               IF call.arg = "bad_item" THEN "email" ELSE "reminder",
                               env.dbFails))
  ELSE Returned(CreateAutomationRule(
                  IF call.arg = "bad_trigger" THEN "every_full_moon" ELSE "spend_over",
                  IF call.arg = "bad_action" THEN "send_money" ELSE "notify",
                  env.dbFails))

\* `except Exception as e: return json.dumps({"error": str(e)})`
TryExcept(o) ==
  IF o.exc THEN [error |-> "exception in handler", wrote |-> o.wrote]
           ELSE [error |-> o.error, wrote |-> o.wrote]

\* _execute_tool_inner: the payload json.dumps() serialises, and the table
\* the handler committed to
ExecuteToolInner(call, env) == TryExcept(Dispatch(call, env))

\* ------------------------------------------------------------------------
\* Statements given to _execute_sql
\* ------------------------------------------------------------------------
SqlHeads ==
  {<<"S","E","L","E","C","T"," ","1">>,
   <<"s","e","l","e","c","t"," ","1">>,
   <<"S","e","l","e","c","t"," ","*"," ","f","r","o","m">>,
   <<"W","I","T","H"," ","a"," ","A","S"," ","(","S","E","L","E","C","T"," ","1",")">>,
   <<"D","R","O","P"," ","T","A","B","L","E">>,
   <<"E","X","P","L","A","I","N"," ","S","E","L","E","C","T">>,
   <<>>}

SqlPres ==
  {<<" ">>,
   <<"\n">>,
   <<"(">>,
   <<"/","*","*","/">>,
   <<" ","m","a","i","n",".">>,
   <<" ","\"">>}

SqlPosts ==
  {<<>>,
   <<"/","*","*","/">>,
   <<"\"">>}

SqlTails ==
  {<<>>,
   <<" ","S","E","L","E","C","T"," ","2">>,
   <<" ","I","N","T","O"," ","n","o","t","e","s"," ","S","E","L","E","C","T"," ","1">>}

SqlBenignWords ==
  {<<"c","r","e","a","t","e","d","_","a","t">>,
   <<"n","o","t","e","s">>}

\* the SQL keywords a model under prompt injection may be made to emit
SqlKeywordInputs ==
  {kwDROP, kwDELETE, kwINSERT, kwUPDATE, kwALTER, kwCREATE, kwTRUNCATE,
   kwUNION, kwPRAGMA, kwATTACH, kwDETACH, kwVACUUM, kwREINDEX, kwLOAD_EXTENSION,
   kwREPLACE}

SqlKeywordSpellings ==
  SqlKeywordInputs
    \cup {StrLower(k) : k \in {kwUNION, kwDELETE, kwPRAGMA, kwATTACH, kwLOAD_EXTENSION}}
    \cup {Capitalised(k) : k \in {kwUNION, kwDROP}}

SqlSettingsSpellings == {kwSETTINGS, StrLower(kwSETTINGS), Capitalised(kwSETTINGS)}

SqlWordInputs == SqlKeywordSpellings \cup SqlSettingsSpellings \cup SqlBenignWords

Pad(n) == [i \in 1..n |-> " "]

SqlInputs ==
  {Pad(n) \o h \o pre \o w \o post \o tl :
     n \in 0..MaxPad, h \in SqlHeads, pre \in SqlPres, w \in SqlWordInputs,
     post \in SqlPosts, tl \in SqlTails}


\* ------------------------------------------------------------------------
\* Interpreter gate: records, validation, follow-up messages
\* ------------------------------------------------------------------------
None == [tag |-> "none"]

\* a filters value: kind "dict" (a JSON object, with its period and limit
\* entries), "null", "falsy" (an empty list or string, zero, false) or
\* "truthy_nondict" (a non-empty list or string, a number)
Filters(k, p, l) == [kind |-> k, period |-> p, limit |-> l]

EmptyFilters == Filters("dict", "absent", "absent")

IntentRecord(i, c, nn, f, dom, act) ==
  [tag |-> "record", intent |-> i, confidence |-> c, needs_narrative |-> nn, filters |-> f,
   domain |-> dom, action |-> act]

VALID_INTENTS ==
  {"spend_total", "spend_compare", "spend_trend", "inbox_count", "urgent_emails",
   "events_upcoming", "free_slots", "overdue_tasks", "streak_status",
   "category_breakdown", "multi", "unknown"}

Max(a, b) == IF a >= b THEN a ELSE b

Min(a, b) == IF a <= b THEN a ELSE b

\* the JSON value the interpreter model produced:
\*   is_dict, has_intent, has_confidence; intent, and whether the string
\*   carries surrounding whitespace; confidence as a kind ("number",
\*   "numeric_string", "bool", "nan", "text", "null") and a value in
\*   hundredths; needs_narrative "absent", "true", "false", "null" or
\*   "string"; filters [present, value]; domain and action, or "absent"
Parsed(d, hi, hc, i, cn, cv, nn, fp, f) ==
  [is_dict |-> d, has_intent |-> hi, has_confidence |-> hc, intent |-> i,
   intent_padded |-> FALSE,
   conf_kind |-> IF cn THEN "number" ELSE "text", conf_value |-> cv,
   needs_narrative |-> nn, filters_present |-> fp, filters |-> f,
   domain |-> "absent", action |-> "absent"]

\* a Python float in hundredths, or NaN
Float(v) == [nan |-> FALSE, v |-> v]

NaN == [nan |-> TRUE, v |-> 0]

\* float(parsed["confidence"]): the float, or `raised` for TypeError and
\* ValueError
FloatOf(kind, value) ==
  IF kind \in {"number", "numeric_string", "bool"}
    THEN [raised |-> FALSE, f |-> Float(value)]
  ELSE IF kind = "nan" THEN [raised |-> FALSE, f |-> NaN]
  ELSE [raised |-> TRUE, f |-> Float(0)]

\* x < y on floats: false when either is NaN
PyLess(x, y) == ~x.nan /\ ~y.nan /\ x.v < y.v

\* min(a, b) and max(a, b) of Python: the first argument unless the second
\* compares smaller (larger)
PyMin(a, b) == IF PyLess(b, a) THEN b ELSE a

PyMax(a, b) == IF PyLess(a, b) THEN b ELSE a

\* max(0.0, min(1.0, conf))
Clamped(conf) == PyMax(Float(0), PyMin(Float(100), conf))

\* the try/except around the conversion: the confidence stored
ValidatedConfidence(parsed) ==
  LET conv == FloatOf(parsed.conf_kind, parsed.conf_value)
  IN IF conv.raised THEN 0 ELSE Clamped(conv.f).v

\* the whitelist test on the unstripped string
ValidatedIntent_NoStrip(parsed) ==
  IF ~parsed.intent_padded /\ parsed.intent \in VALID_INTENTS
    THEN parsed.intent ELSE "unknown"

\* str(parsed.get("intent", "unknown")).strip(), then the whitelist
ValidatedIntent(parsed) ==
  IF parsed.intent \in VALID_INTENTS THEN parsed.intent ELSE "unknown"

\* bool(parsed.get("needs_narrative", True)) after the setdefault
ValidatedNeedsNarrative_DefaultFalse(parsed) == parsed.needs_narrative \in {"true", "string"}

ValidatedNeedsNarrative(parsed) == parsed.needs_narrative \notin {"false", "null"}

\* _validate_interpreter_output
ValidateInterpreterOutput(parsed) ==
  IF ~parsed.is_dict THEN None
  ELSE IF ~parsed.has_intent \/ ~parsed.has_confidence THEN None
  ELSE IntentRecord(
         ValidatedIntent(parsed),
         ValidatedConfidence(parsed),
         ValidatedNeedsNarrative(parsed),
         IF parsed.filters_present THEN parsed.filters ELSE EmptyFilters,
         IF parsed.domain = "absent" THEN "unknown" ELSE parsed.domain,
         IF parsed.action = "absent" THEN "unknown" ELSE parsed.action)

\* str.split(): the maximal runs of non-whitespace characters, in order
RECURSIVE SplitWordsAcc(_, _, _)
SplitWordsAcc(s, cur, acc) ==
  LET flushed == IF cur = <<>> THEN acc ELSE Append(acc, cur)
  IN IF s = <<>> THEN flushed
     ELSE IF Head(s) \in Whitespace
            THEN SplitWordsAcc(Tail(s), <<>>, flushed)
            ELSE SplitWordsAcc(Tail(s), Append(cur, Head(s)), acc)

StrSplit(s) == SplitWordsAcc(s, <<>>, <<>>)

PunctChars == {"?", ".", ",", "!"}

RECURSIVE LStripPunct(_)
LStripPunct(w) ==
  IF w = <<>> THEN w
  ELSE IF Head(w) \in PunctChars THEN LStripPunct(Tail(w)) ELSE w

RECURSIVE RStripPunct(_)
RStripPunct(w) ==
  IF w = <<>> THEN w
  ELSE IF w[Len(w)] \in PunctChars THEN RStripPunct(SubSeq(w, 1, Len(w) - 1)) ELSE w

\* w.strip("?.,!")
StripPunct(w) == RStripPunct(LStripPunct(w))

FOLLOWUP_PRONOUNS ==
  {<<"i","t">>, <<"t","h","a","t">>, <<"t","h","o","s","e">>, <<"t","h","e","m">>,
   <<"t","h","e","r","e">>, <<"t","h","i","s">>, <<"s","a","m","e">>, <<"m","o","r","e">>,
   <<"e","l","s","e">>, <<"a","l","s","o">>, <<"s","i","m","i","l","a","r">>,
   <<"r","e","l","a","t","e","d">>, <<"t","h","e","n">>, <<"a","g","a","i","n">>}

\* the list `words` of _is_followup_message
FollowupWords(message) ==
  LET raw == StrSplit(message)
      kept == SelectSeq(raw, LAMBDA w : StripPunct(w) # <<>>)
  IN [i \in 1..Len(kept) |-> StrLower(StripPunct(kept[i]))]

\* the pronoun test applied to the first two words of a message of any length
IsFollowupMessage_PronounAnyLength(message) ==
  LET words == FollowupWords(message)
  IN \/ Len(words) <= 2
     \/ \E i \in 1..2 : words[i] \in FOLLOWUP_PRONOUNS

\* _is_followup_message
IsFollowupMessage(message) ==
  LET words == FollowupWords(message)
  IN IF Len(words) <= 2 /\ \E i \in 1..Len(words) : words[i] \in FOLLOWUP_PRONOUNS
       THEN TRUE
     ELSE IF Len(words) <= 2 THEN TRUE
     ELSE FALSE

\* `p in s` on strings
StrContains(s, p) ==
  \E i \in 1..(Len(s) - Len(p) + 1) : SubSeq(s, i, i + Len(p) - 1) = p

\* the (keyword, period) list of the follow-up branch, in the order tried
PERIOD_KEYWORDS ==
  <<[kw |-> <<"y","e","s","t","e","r","d","a","y">>, period |-> "today"],
    [kw |-> <<"l","a","s","t"," ","w","e","e","k">>, period |-> "week"],
    [kw |-> <<"l","a","s","t"," ","m","o","n","t","h">>, period |-> "last_month"],
    [kw |-> <<"t","h","i","s"," ","y","e","a","r">>, period |-> "year"],
    [kw |-> <<"t","o","d","a","y">>, period |-> "today"],
    [kw |-> <<"t","h","i","s"," ","w","e","e","k">>, period |-> "week"],
    [kw |-> <<"t","h","i","s"," ","m","o","n","t","h">>, period |-> "month"]>>

\* the period of the first keyword found in the lower-cased message, or "none"
FollowupPeriod(message) ==
  LET msg_l == StrLower(message)
      hits == {i \in 1..Len(PERIOD_KEYWORDS) : StrContains(msg_l, PERIOD_KEYWORDS[i].kw)}
  IN IF hits = {} THEN "none"
     ELSE PERIOD_KEYWORDS[CHOOSE i \in hits : \A j \in hits : i <= j].period

\* `not message or not message.strip()`
IsBlank(message) == message = <<>> \/ StrStrip(message) = <<>>

InterpreterBypassed_OffByOne(fail_count) == fail_count > INTERPRETER_FAIL_THRESHOLD

\* the auto-bypass test of _call_interpreter
InterpreterBypassed(fail_count) == fail_count >= INTERPRETER_FAIL_THRESHOLD

MessageInputs ==
  {<<>>,
   <<" "," ">>,
   <<"m","o","r","e">>,
   <<"t","h","i","s"," ","w","e","e","k","?">>,
   <<"L","a","s","t"," ","M","o","n","t","h">>,
   <<"h","o","w"," ","m","u","c","h"," ","d","i","d"," ","I"," ","s","p","e","n","d"," ","t","h","i","s"," ","m","o","n","t","h">>}


\* ------------------------------------------------------------------------
\* _call_interpreter
\* ------------------------------------------------------------------------
NoParsed == Parsed(FALSE, FALSE, FALSE, "unknown", FALSE, 0, "absent", FALSE, EmptyFilters)

\* what the backend answers to the classification request
InterpreterResponse(k, p) == [kind |-> k, parsed |-> p]

CountFailure_Skip(fail_count) == fail_count

CountFailure_Twice(fail_count) == fail_count + 2

\* `_interpreter_fail_count += 1`
CountFailure(fail_count) == fail_count + 1

\* the follow-up branch: the shallow copy of the stored record with the
\* period overwritten and the confidence set; `raised` when the item
\* assignment on the filters value raises TypeError. dict() copies the
\* record but shares its filters object, so the overwrite also lands in
\* the stored record.
ReuseLastIntent(last_det, message) ==
  LET period == FollowupPeriod(message)
  IN IF period = "none"
       THEN [raised |-> FALSE,
             ret |-> [last_det EXCEPT !.confidence = FOLLOWUP_CONF],
             last_det |-> last_det]
     ELSE IF last_det.filters.kind # "dict"
       THEN [raised |-> TRUE, ret |-> None, last_det |-> last_det]
     ELSE [raised |-> FALSE,
           ret |-> [last_det EXCEPT !.filters.period = period,
                                    !.confidence = FOLLOWUP_CONF],
           last_det |-> [last_det EXCEPT !.filters.period = period]]

\* the guards with the follow-up reuse tested before the bypass
InterpreterGuards_ReuseFirst(message, fail_count, last_det) ==
  IF IsBlank(message)
    THEN [decided |-> TRUE, ret |-> None, raised |-> FALSE, issued |-> FALSE,
          fail_count |-> fail_count, last_det |-> last_det]
  ELSE IF IsFollowupMessage(message) /\ last_det # None
    THEN LET r == ReuseLastIntent(last_det, message)
         IN [decided |-> TRUE, ret |-> r.ret, raised |-> r.raised, issued |-> FALSE,
             fail_count |-> fail_count, last_det |-> r.last_det]
  ELSE IF InterpreterBypassed(fail_count)
    THEN [decided |-> TRUE, ret |-> None, raised |-> FALSE, issued |-> FALSE,
          fail_count |-> fail_count, last_det |-> last_det]
  ELSE [decided |-> FALSE, ret |-> None, raised |-> FALSE, issued |-> FALSE,
        fail_count |-> fail_count, last_det |-> last_det]

\* _call_interpreter, the guards before the call (blank message, bypass,
\* follow-up reuse): `decided` when one of them returns, then the value
\* returned (or `raised`) and the session state afterwards
InterpreterGuards(message, fail_count, last_det) ==
  IF IsBlank(message)
    THEN [decided |-> TRUE, ret |-> None, raised |-> FALSE, issued |-> FALSE,
          fail_count |-> fail_count, last_det |-> last_det]
  ELSE IF InterpreterBypassed(fail_count)
    THEN [decided |-> TRUE, ret |-> None, raised |-> FALSE, issued |-> FALSE,
          fail_count |-> fail_count, last_det |-> last_det]
  ELSE IF IsFollowupMessage(message) /\ last_det # None
    THEN LET r == ReuseLastIntent(last_det, message)
         IN [decided |-> TRUE, ret |-> r.ret, raised |-> r.raised, issued |-> FALSE,
             fail_count |-> fail_count, last_det |-> r.last_det]
  ELSE [decided |-> FALSE, ret |-> None, raised |-> FALSE, issued |-> FALSE,
        fail_count |-> fail_count, last_det |-> last_det]

\* _call_interpreter, the classification call and what follows it
InterpreterCall(fail_count, last_det, resp) ==
  IF resp.kind = "http_error"
    THEN [decided |-> TRUE, ret |-> None, raised |-> FALSE, issued |-> TRUE,
          fail_count |-> CountFailure(fail_count), last_det |-> last_det]
  ELSE IF resp.kind \in {"exception", "bad_json"}
    THEN [decided |-> TRUE, ret |-> None, raised |-> FALSE, issued |-> TRUE,
          fail_count |-> CountFailure(fail_count), last_det |-> last_det]
  ELSE LET validated == ValidateInterpreterOutput(resp.parsed)
       IN IF validated = None
            THEN [decided |-> TRUE, ret |-> None, raised |-> FALSE, issued |-> TRUE,
                  fail_count |-> CountFailure(fail_count), last_det |-> last_det]
            ELSE [decided |-> TRUE, ret |-> validated, raised |-> FALSE, issued |-> TRUE,
                  fail_count |-> 0, last_det |-> last_det]

\* ------------------------------------------------------------------------
\* _route_deterministic and _compose_response
\* ------------------------------------------------------------------------
TemplatedIntents ==
  {"spend_total", "spend_compare", "spend_trend", "inbox_count", "urgent_emails",
   "events_upcoming", "overdue_tasks", "streak_status", "category_breakdown"}

\* what the store answers to the template's queries: `fails` when sqlite
\* raises (missing table, locked file), else the number of matching rows
DbViews == [fails : BOOLEAN, rows : {0, 2}]

\* _route_deterministic, the try block: `exc` when a statement in it
\* raises, else the value returned. `limit` stands for the integer entry
\* the template converts with int(): limit (urgent_emails) or days
\* (events_upcoming).
RouteQuery(intent_data, db) ==
  LET intent == intent_data.intent
      filters == IF intent_data.filters.kind \in {"null", "falsy"}
                   THEN EmptyFilters ELSE intent_data.filters
  IN IF intent \notin TemplatedIntents THEN [exc |-> FALSE, ret |-> None]
     ELSE IF intent \in {"spend_total", "category_breakdown"}
             /\ (filters.kind # "dict" \/ filters.period = "nonstring")
       THEN [exc |-> TRUE, ret |-> None]
     ELSE IF intent \in {"urgent_emails", "events_upcoming"}
             /\ (filters.kind # "dict" \/ filters.limit = "bad")
       THEN [exc |-> TRUE, ret |-> None]
     ELSE IF db.fails THEN [exc |-> TRUE, ret |-> None]
     ELSE [exc |-> FALSE,
           ret |-> [tag |-> "result", intent |-> intent, rows |-> db.rows,
                    unread_null |-> (intent = "inbox_count" /\ db.rows = 0)]]

\* the try block without its handler
RouteOutcome_NoExcept(intent_data, db) ==
  LET o == RouteQuery(intent_data, db)
  IN [raised |-> o.exc, ret |-> o.ret]

\* `except Exception: return None` around the try block
RouteOutcome(intent_data, db) ==
  LET o == RouteQuery(intent_data, db)
  IN IF o.exc THEN [raised |-> FALSE, ret |-> None]
     ELSE [raised |-> FALSE, ret |-> o.ret]

\* _route_deterministic
RouteDeterministic(intent_data, db) == RouteOutcome(intent_data, db).ret

NoDataText == <<"N","o"," ","d","a","t","a",".">>

DataText == <<"2"," ","r","o","w","s"," ","f","o","u","n","d">>

\* _compose_response: the text, or `raised` when a conversion raises
\* (int(None) on the unread count of an empty email_cache)
ComposeResponse(r) ==
  IF r.intent \notin TemplatedIntents
    THEN [raised |-> FALSE, text |-> <<>>]
  ELSE IF r.intent = "inbox_count" /\ r.unread_null
    THEN [raised |-> TRUE, text |-> <<>>]
  ELSE IF r.rows = 0
    THEN [raised |-> FALSE, text |-> NoDataText]
  ELSE [raised |-> FALSE, text |-> DataText]

DeterministicEligible_IgnoresNarrative(intent_data) ==
  /\ intent_data.confidence >= CONF_CUTOFF
  /\ intent_data.intent # "unknown"

\* `_conf >= 0.75 and not _needs_narrative and _intent_name != "unknown"`
DeterministicEligible(intent_data) ==
  /\ intent_data.confidence >= CONF_CUTOFF
  /\ ~intent_data.needs_narrative
  /\ intent_data.intent # "unknown"

\* the result dict of a turn
TurnResult(text, tools_used, iters, routed, error) ==
  [text |-> text, tools_used |-> tools_used, iterations |-> iters,
   routed |-> routed, error |-> error]

NoResult == TurnResult(<<>>, <<>>, 0, "", "")

DeterministicResult_CountsRound(text) == TurnResult(text, <<>>, 1, "deterministic", "")

\* the dict returned on the deterministic path
DeterministicResult(text) == TurnResult(text, <<>>, 0, "deterministic", "")

\* _narrative_budget after the gate
NarrativeBudget(intent_data) ==
  IF intent_data = None THEN 1024
  ELSE IF intent_data.needs_narrative
    THEN (IF intent_data.intent = "multi" THEN 2000 ELSE 800)
  ELSE 1024

FALLBACK_TEXT == <<"I analyzed the data but couldn't form a clear answer. Try rephrasing?">>

\* `content.strip() if content else <fallback>`
FinalText(content) == IF content # <<>> THEN StrStrip(content) ELSE FALLBACK_TEXT

\* the same round budget in both functions
RoundLimit_SameForStream(m) == MAX_ITERATIONS

\* range() of the tool loop: MAX_ITERATIONS, one less when streaming
RoundLimit(m) == IF m = "stream" THEN MAX_ITERATIONS - 1 ELSE MAX_ITERATIONS

\* ------------------------------------------------------------------------
\* The transcript (`messages`) of a turn
\* ------------------------------------------------------------------------
\* a turn of conversation_history: its role and its content. A content is
\* a sequence: <<>> the empty text, LongText a text of more than 500
\* characters.
HistoryTurn(role, content) == [role |-> role, content |-> content]

LongText == [i \in 1..(HISTORY_CHARS + 1) |-> "x"]

ShortText == <<"h", "i">>

TruncatedText == SubSeq(LongText, 1, HISTORY_CUT) \o <<".", ".", ".">>

\* s[-n:]
LastN(s, n) == SubSeq(s, Max(1, Len(s) - n + 1), Len(s))

\* a turn of the transcript; `of` is the invocation a tool turn answers (the
\* message itself does not name it), `tool_calls` those an assistant turn asks
Turn(role, content, tool_calls, of) ==
  [role |-> role, content |-> content, tool_calls |-> tool_calls, of |-> of]

\* `content[:497] + "..."` when len(content) > 500
Truncated(content) ==
  IF Len(content) > HISTORY_CHARS
    THEN SubSeq(content, 1, HISTORY_CUT) \o <<".", ".", ".">>
    ELSE content

\* the selection without its test of the role
SelectedHistory_AnyRole(conversation_history, limit) ==
  LET window == LastN(conversation_history, limit)
      kept == SelectSeq(window, LAMBDA h : h.content # <<>>)
  IN [i \in 1..Len(kept) |-> Turn(kept[i].role, Truncated(kept[i].content), <<>>, NoCall)]

\* the history turns kept: of the last `limit` ones, those with a content and
\* the role user or assistant, in order
SelectedHistory(conversation_history, limit) ==
  LET window == LastN(conversation_history, limit)
      kept == SelectSeq(window, LAMBDA h : h.content # <<>>
                                            /\ h.role \in {"user", "assistant"})
  IN [i \in 1..Len(kept) |-> Turn(kept[i].role, Truncated(kept[i].content), <<>>, NoCall)]

\* the window without the test of _slim_context
HistoryLimit_AlwaysFull(slim) == HISTORY_FULL

\* `_history_limit = 2 if _slim_context else 6`
HistoryLimit(slim) == IF slim THEN HISTORY_SLIM ELSE HISTORY_FULL

\* `messages` before the first round
InitialTranscript(conversation_history, slim, msg) ==
  <<Turn("system", <<"SYSTEM_PROMPT">>, <<>>, NoCall)>>
    \o SelectedHistory(conversation_history, HistoryLimit(slim))
    \o <<Turn("user", <<"[Today is ...]", "\n">> \o msg, <<>>, NoCall)>>

\* `messages.append(assistant_msg)`
AssistantTurn(resp) == Turn("assistant", resp.content, resp.tool_calls, NoCall)

\* `messages.append({"role": "tool", "content": tool_result})`
ToolTurn(call, r) == Turn("tool", <<r.error>>, <<>>, call)

\* the list kept free of repeated invocations
RecordToolUse_Dedup(tools_used, call) ==
  IF \E i \in 1..Len(tools_used) : tools_used[i] = call
    THEN tools_used ELSE Append(tools_used, call)

\* `tools_used.append({"name": tool_name, "arguments": args})`
RecordToolUse(tools_used, call) == Append(tools_used, call)

\* ------------------------------------------------------------------------
\* What agent_chat_stream yields
\* ------------------------------------------------------------------------
ChunkItem(c) == [kind |-> "chunk", text |-> c, res |-> NoResult]

ResultItem(r) == [kind |-> "result", text |-> r.text, res |-> r]

\* _stream_content_as_chunks: text[i:i + chunk_size] for i = 0, 6, 12, ...
StreamContentAsChunks(text) ==
  [i \in 1..((Len(text) + CHUNK_SIZE - 1) \div CHUNK_SIZE) |->
     SubSeq(text, (i - 1) * CHUNK_SIZE + 1, Min(i * CHUNK_SIZE, Len(text)))]

\* full_text set to "" after the first chunk instead of before it
RECURSIVE Accumulated_SkipsFirst(_)
Accumulated_SkipsFirst(chunks) ==
  IF Len(chunks) < 2 THEN <<>>
  ELSE chunks[2] \o Accumulated_SkipsFirst(<<chunks[1]>> \o SubSeq(chunks, 3, Len(chunks)))

\* `full_text += chunk` over the chunks
RECURSIVE Accumulated(_)
Accumulated(chunks) ==
  IF chunks = <<>> THEN <<>> ELSE Head(chunks) \o Accumulated(Tail(chunks))

ChunkItems(chunks) == [i \in 1..Len(chunks) |-> ChunkItem(chunks[i])]

\* the deltas the backend sends for a text: here one character each
Deltas(content) == [i \in 1..Len(content) |-> <<content[i]>>]

\* _call_ollama_stream: the str chunks, then the final dict with the text it
\* accumulated and, when the call failed, an error
OllamaStream(status, deltas) ==
  IF status = "http_error"
    THEN [chunks |-> <<>>, text |-> <<>>, error |-> "Ollama HTTP error"]
    ELSE [chunks |-> deltas, text |-> Accumulated(deltas),
          error |-> IF status = "broken" THEN "Cannot connect to Ollama" ELSE ""]


\* ------------------------------------------------------------------------
\* State
\* ------------------------------------------------------------------------
VARIABLES
  failCount,        \* _interpreter_fail_count
  misfireCount,     \* _deterministic_misfire_count
  lastDet,          \* _last_deterministic_intent
  store,            \* the SQLite store: committed mutations per table
  hung,             \* writes of timed-out invocations still running in the pool
  pc,               \* position of the current turn
  mode,             \* "chat" (agent_chat) or "stream" (agent_chat_stream)
  message,          \* the user message of the turn
  intentData,       \* _intent_data, the value the gate returned
  slimContext,      \* _slim_context
  narrativeBudget,  \* _narrative_budget
  pending,          \* tool_calls of the round not yet executed
  toolsUsed,        \* tools_used
  iterations,       \* iterations
  result,           \* the result dict of the turn
  calls,            \* backend calls and tool executions of the turn so far
  respLog,          \* what the backend answered in this turn
  history,          \* conversation_history of the turn
  transcript,       \* messages
  yielded,          \* what agent_chat_stream has yielded so far
  toYield,          \* what it yields next, in order
  failStreak,       \* failed interpreter calls since the last validated one
  interpLog,        \* the last _call_interpreter: call issued, call failed
  sqlIn,            \* argument of _execute_sql
  sqlOut,           \* its result
  toolIn,           \* argument of execute_tool / _execute_write
  toolOut,          \* its result
  enginePc,         \* engine.main: before the loop, in it, or ended
  stdout,           \* the lines main has written
  linesHandled,     \* non-empty lines of stdin the loop has taken
  curLine,          \* main: the line of the current iteration, parsed
  toWrite,          \* main: lines the agent_stream branch has yet to write
  fnIn,             \* a function of the gate called alone: its name and argument
  fnOut,            \* what it returned
  twin              \* the comparison of agent_chat with agent_chat_stream

sessionVars == <<failCount, misfireCount, lastDet>>

storeVars == <<store, hung>>

turnVars == <<pc, mode, message, intentData, slimContext, narrativeBudget,
              pending, toolsUsed, iterations, result, calls, respLog,
              history, transcript, yielded, toYield>>

ghostVars == <<failStreak, interpLog>>

sqlVars == <<sqlIn, sqlOut>>

toolVars == <<toolIn, toolOut>>

engineVars == <<enginePc, stdout, linesHandled, curLine, toWrite>>

fnVars == <<fnIn, fnOut>>

twinVars == <<twin>>

vars == <<sessionVars, storeVars, turnVars, ghostVars, sqlVars, toolVars,
          engineVars, fnVars, twinVars>>

ZeroCalls == [interpreter |-> 0, with_tools |-> 0, tool_free |-> 0,
              streaming |-> 0, tool_exec |-> 0]

FreshLog == [all_tools |-> TRUE, any_error |-> FALSE]

SqlNotRun == [ran |-> FALSE, res |-> SqlRejected("", {}), yields |-> 0]

ToolNotRun == [ran |-> FALSE, via |-> "", error |-> "", wrote |-> NoTable,
               before |-> EmptyStore, raised |-> FALSE, timeout_of |-> "",
               timedOut |-> FALSE, slow |-> FALSE, busy |-> 0]

\* no function called alone
NoInput == [fn |-> "none"]

FnNotRun == [ran |-> FALSE, val |-> FALSE]

\* no comparison begun
NoTwin ==
  [phase |-> "none",
   before |-> [failCount |-> 0, misfireCount |-> 0, lastDet |-> None,
               store |-> EmptyStore, hung |-> <<>>, failStreak |-> 0,
               interpLog |-> [issued |-> FALSE, failed |-> FALSE]],
   inputs |-> [interp |-> InterpreterResponse("http_error", NoParsed),
               db |-> [fails |-> FALSE, rows |-> 0],
               resps |-> <<>>, tools |-> <<>>],
   chat |-> [pc |-> "idle", result |-> NoResult, failCount |-> 0,
             misfireCount |-> 0, lastDet |-> None]]

\* no line read yet
NoLine == [text |-> "blank",
           req |-> [json |-> "array", id |-> "absent", type |-> "absent",
                    payload |-> "absent"]]

\* the state after the module is imported, the inputs of the function
\* specifications aside
InitProgram ==
  /\ failCount = 0
  /\ misfireCount = 0
  /\ lastDet = None
  /\ store = EmptyStore
  /\ hung = <<>>
  /\ pc = "idle"
  /\ mode = "chat"
  /\ message = <<>>
  /\ intentData = None
  /\ slimContext = FALSE
  /\ narrativeBudget = 1024
  /\ pending = <<>>
  /\ toolsUsed = <<>>
  /\ iterations = 0
  /\ result = NoResult
  /\ calls = ZeroCalls
  /\ respLog = FreshLog
  /\ history = <<>>
  /\ transcript = <<>>
  /\ yielded = <<>>
  /\ toYield = <<>>
  /\ failStreak = 0
  /\ interpLog = [issued |-> FALSE, failed |-> FALSE]
  /\ sqlOut = SqlNotRun
  /\ toolIn = NoCall
  /\ toolOut = ToolNotRun
  /\ enginePc = "start"
  /\ stdout = <<>>
  /\ linesHandled = 0
  /\ curLine = NoLine
  /\ toWrite = <<>>
  /\ fnOut = FnNotRun
  /\ twin = NoTwin

Init == InitProgram /\ fnIn = NoInput /\ sqlIn = <<>>

TotalWrites(st) ==
  st["reminders"] + st["spend_log"] + st["notes"] + st["automation_rules"]
    + st["settings"] + st["chat_messages"] + st["other"]

\* the model stops committing once MaxWrites mutations are in the store
MayCommit(table) == table = NoTable \/ TotalWrites(store) < MaxWrites

\* ------------------------------------------------------------------------
\* Inputs of a turn
\* ------------------------------------------------------------------------
FilterInputs ==
  {EmptyFilters,
   Filters("dict", "year", "absent"),
   Filters("dict", "absent", "bad"),
   Filters("null", "absent", "absent"),
   Filters("truthy_nondict", "absent", "absent")}

ParsedInputs ==
  {Parsed(FALSE, FALSE, FALSE, "unknown", FALSE, 0, "absent", FALSE, EmptyFilters),
   Parsed(TRUE, FALSE, TRUE, "unknown", TRUE, 90, "false", FALSE, EmptyFilters),
   Parsed(TRUE, TRUE, FALSE, "spend_total", FALSE, 0, "false", FALSE, EmptyFilters)}
  \cup {Parsed(TRUE, TRUE, TRUE, "spend_total", cn, cv, "false", FALSE, EmptyFilters) :
          cn \in BOOLEAN, cv \in {74, 75, 150}}
  \cup {Parsed(TRUE, TRUE, TRUE, i, TRUE, 90, nn, FALSE, EmptyFilters) :
          i \in {"spend_total", "multi", "unknown", "make_coffee"},
          nn \in {"absent", "true", "false"}}
  \cup {Parsed(TRUE, TRUE, TRUE, i, TRUE, 90, "false", TRUE, f) :
          i \in {"spend_total", "inbox_count", "urgent_emails"}, f \in FilterInputs}

InterpreterResponses ==
  {InterpreterResponse(k, NoParsed) : k \in {"http_error", "exception", "bad_json"}}
    \cup {InterpreterResponse("json", p) : p \in ParsedInputs}

\* the claim's reading of a failed call, from the response alone
ResponseFailed(resp) ==
  \/ resp.kind \in {"http_error", "exception", "bad_json"}
  \/ ~resp.parsed.is_dict
  \/ ~resp.parsed.has_intent
  \/ ~resp.parsed.has_confidence

ContentInputs == {<<>>, <<" ", "\n">>, <<" ", "o", "k">>}

SqlPlain == <<"S","E","L","E","C","T"," ","1">>

SqlCloakedWrite ==
  <<"W","I","T","H"," ","a"," ","A","S"," ","(","S","E","L","E","C","T"," ","1",")"," ",
    "D","E","L","E","T","E","/","*","*","/","F","R","O","M"," ",
    "c","h","a","t","_","m","e","s","s","a","g","e","s">>

\* the tool invocations the backend asks for in a turn
ToolCallInputs ==
  {ToolCall("query_database", SqlPlain, "ok"),
   ToolCall("save_note", <<>>, "ok")}

RECURSIVE SeqsUpTo(_, _)
SeqsUpTo(S, n) ==
  IF n = 0 THEN {<<>>}
  ELSE LET shorter == SeqsUpTo(S, n - 1)
       IN shorter \cup {Append(q, x) : q \in shorter, x \in S}

\* a backend answer to a tool-supplying call: an error, a message with a
\* content, or a message with tool_calls
ModelResponses ==
  {[error |-> TRUE, content |-> <<>>, tool_calls |-> <<>>]}
    \cup {[error |-> FALSE, content |-> c, tool_calls |-> <<>>] : c \in ContentInputs}
    \cup {[error |-> FALSE, content |-> <<>>, tool_calls |-> tc] :
            tc \in SeqsUpTo(ToolCallInputs, MaxToolCalls) \ {<<>>}}


\* ------------------------------------------------------------------------
\* execute_tool
\* ------------------------------------------------------------------------
\* fut.result(timeout=20): on a timeout the caller gets the timeout error
\* at once; fut.cancel() does not stop a handler that is already running,
\* so what it would commit (`late`) is still to come.
\* `raised`: an exception leaves execute_tool; `timeout_of`: the tool the
\* timeout error names
Awaited_TimeoutEscapes(name, inner, timedOut) ==
  IF timedOut
    THEN [error |-> "", wrote |-> NoTable, late |-> <<inner.wrote>>,
          raised |-> TRUE, timeout_of |-> ""]
    ELSE [error |-> inner.error, wrote |-> inner.wrote, late |-> <<>>,
          raised |-> FALSE, timeout_of |-> ""]

Awaited(name, inner, timedOut) ==
  IF timedOut
    THEN [error |-> "timed out", wrote |-> NoTable, late |-> <<inner.wrote>>,
          raised |-> FALSE, timeout_of |-> name]
    ELSE [error |-> inner.error, wrote |-> inner.wrote, late |-> <<>>,
          raised |-> FALSE, timeout_of |-> ""]

ExecuteTool(call, env, timedOut) ==
  Awaited(call.name, ExecuteToolInner(call, env), timedOut)

RemoveAt(q, i) == SubSeq(q, 1, i - 1) \o SubSeq(q, i + 1, Len(q))

\* a handler abandoned by a timeout runs to its end
HungToolFinishes ==
  /\ hung # <<>>
  /\ \E i \in 1..Len(hung) :
       /\ MayCommit(hung[i])
       /\ store' = Commit(store, hung[i])
       /\ hung' = RemoveAt(hung, i)
  /\ UNCHANGED <<sessionVars, turnVars, ghostVars, sqlVars, fnVars, twinVars, engineVars, toolVars>>

\* ------------------------------------------------------------------------
\* A turn of agent_chat / agent_chat_stream
\* ------------------------------------------------------------------------
\* the locals of a call of agent_chat (md = "chat") or agent_chat_stream
\* (md = "stream") with the message m and the conversation_history h
TurnBegins(m, md, h) ==
  /\ message' = m
  /\ mode' = md
  /\ history' = h
  /\ transcript' = <<>>
  /\ yielded' = <<>>
  /\ toYield' = <<>>
  /\ pc' = "gate"
  /\ intentData' = None
  /\ slimContext' = FALSE
  /\ narrativeBudget' = 1024
  /\ pending' = <<>>
  /\ toolsUsed' = <<>>
  /\ iterations' = 0
  /\ result' = NoResult
  /\ calls' = ZeroCalls
  /\ respLog' = FreshLog

StartTurn(messages, histories) ==
  /\ pc \in {"idle", "done", "raised"}
  /\ \E m \in messages, md \in {"chat", "stream"}, h \in histories :
       TurnBegins(m, md, h)
  /\ UNCHANGED <<sessionVars, storeVars, ghostVars, sqlVars, fnVars, twinVars, engineVars, toolVars>>

\* the effect of `_intent_data = _call_interpreter(...)` with outcome o;
\* failed: the call was issued and its answer was a failure
InterpreterReturns(o, failed) ==
  /\ failCount' = o.fail_count
  /\ lastDet' = o.last_det
  /\ intentData' = o.ret
  /\ pc' = IF o.raised THEN "raised" ELSE "route"
  /\ result' = IF o.raised
                 THEN TurnResult(<<>>, <<>>, 0, "", "TypeError in _call_interpreter")
                 ELSE result
  /\ calls' = [calls EXCEPT !.interpreter = @ + (IF o.issued THEN 1 ELSE 0)]
  /\ interpLog' = [issued |-> o.issued, failed |-> failed]
  /\ failStreak' = IF ~o.issued THEN failStreak
                   ELSE IF failed THEN failStreak + 1
                   ELSE 0

\* `_intent_data = _call_interpreter(message, _last_user_turn)`
InterpreterStep(responses) ==
  /\ pc = "gate"
  /\ LET g == InterpreterGuards(message, failCount, lastDet)
     IN IF g.decided
          THEN InterpreterReturns(g, FALSE)
          ELSE \E resp \in responses :
                 InterpreterReturns(InterpreterCall(failCount, lastDet, resp),
                                    ResponseFailed(resp))
  /\ UNCHANGED <<misfireCount, storeVars, mode, message, slimContext, narrativeBudget,
                 pending, toolsUsed, iterations, respLog, history, transcript, yielded,
                 toYield, sqlVars, fnVars, engineVars, toolVars>>

\* the call in a turn of its own
CallInterpreter(responses) == InterpreterStep(responses) /\ UNCHANGED twinVars

\* the fall-through of the gate into the agentic loop
FallThrough ==
  /\ pc' = "model"
  /\ slimContext' = (intentData # None)
  /\ narrativeBudget' = NarrativeBudget(intentData)
  /\ transcript' = InitialTranscript(history, intentData # None, message)
  /\ UNCHANGED <<failCount, lastDet, result, toYield>>

\* the turn ends with the result dict r: agent_chat returns it,
\* agent_chat_stream yields the chunks and then the dict
Answers(chunks, r) ==
  /\ result' = r
  /\ IF mode = "stream"
       THEN /\ toYield' = ChunkItems(chunks) \o <<ResultItem(r)>>
            /\ pc' = "yield"
       ELSE /\ toYield' = <<>>
            /\ pc' = "done"

\* the routing decision after the gate, up to the first backend call, on a
\* store that answers the template's queries with one of dbs
GateStep(dbs) ==
  /\ pc = "route"
  /\ \E db \in dbs :
       IF intentData # None /\ DeterministicEligible(intentData)
         THEN LET det == RouteDeterministic(intentData, db)
              IN IF det # None
                   THEN LET resp == ComposeResponse(det)
                        IN IF resp.raised
                             THEN /\ pc' = "raised"
                                  /\ result' = TurnResult(<<>>, <<>>, 0, "",
                                                          "TypeError in _compose_response")
                                  /\ UNCHANGED <<sessionVars, slimContext, narrativeBudget,
                                                 transcript, toYield>>
                           ELSE IF resp.text # <<>>
                             THEN /\ lastDet' = intentData
                                  /\ Answers(StreamContentAsChunks(resp.text),
                                             DeterministicResult(resp.text))
                                  /\ UNCHANGED <<failCount, misfireCount, slimContext,
                                                 narrativeBudget, transcript>>
                           ELSE /\ misfireCount < MaxMisfire
                                /\ misfireCount' = misfireCount + 1
                                /\ FallThrough
                   ELSE /\ misfireCount < MaxMisfire
                        /\ misfireCount' = misfireCount + 1
                        /\ FallThrough
         ELSE /\ UNCHANGED misfireCount
              /\ FallThrough
  /\ UNCHANGED <<storeVars, mode, message, intentData, pending, toolsUsed, iterations,
                 calls, respLog, history, yielded, ghostVars, sqlVars, fnVars, engineVars, toolVars>>

\* the decision in a turn of its own
GateDecisionOn(dbs) == GateStep(dbs) /\ UNCHANGED twinVars

GateDecision == GateDecisionOn(DbViews)

\* the tool-free answer of a round: agent_chat returns the stripped content,
\* agent_chat_stream the text it accumulated over the chunks it yields
ToolFreeAnswer(chunks, stripped) ==
  Answers(chunks,
          TurnResult(IF mode = "stream" THEN Accumulated(chunks) ELSE stripped,
                     toolsUsed, iterations + 1, "", ""))

\* one round: `_call_ollama(messages, tools=TOOLS, model=model)` and what
\* follows up to the first tool execution
RoundStep(responses) ==
  /\ pc = "model"
  /\ \E resp \in responses :
       /\ iterations' = iterations + 1
       /\ calls' = [calls EXCEPT !.with_tools = @ + 1]
       /\ respLog' = [all_tools |-> respLog.all_tools /\ ~resp.error /\ resp.tool_calls # <<>>,
                      any_error |-> respLog.any_error \/ resp.error]
       /\ IF resp.error
            THEN /\ Answers(<<>>, TurnResult(<<>>, toolsUsed, iterations + 1, "",
                                             "model error"))
                 /\ UNCHANGED <<pending, transcript>>
          ELSE IF resp.tool_calls = <<>>
            THEN /\ ToolFreeAnswer(StreamContentAsChunks(StrStrip(resp.content)),
                                   StrStrip(resp.content))
                 /\ transcript' = Append(transcript, AssistantTurn(resp))
                 /\ UNCHANGED pending
          ELSE /\ pending' = resp.tool_calls
               /\ pc' = "tools"
               /\ transcript' = Append(transcript, AssistantTurn(resp))
               /\ UNCHANGED <<result, toYield>>
  /\ UNCHANGED <<sessionVars, storeVars, mode, message, intentData, slimContext,
                 narrativeBudget, toolsUsed, history, yielded, ghostVars, sqlVars, fnVars, engineVars,
                 toolVars>>

\* the round in a turn of its own
ModelCall(responses) == RoundStep(responses) /\ UNCHANGED twinVars

\* what an invocation with the result r leaves in the store and in the pool
ToolCommits(r) ==
  /\ MayCommit(r.wrote)
  /\ store' = Commit(store, r.wrote)
  /\ hung' = hung \o r.late

\* what the loop does with the result r of the invocation `call`
ToolFedBack(call, r) ==
  /\ ToolCommits(r)
  /\ toolsUsed' = RecordToolUse(toolsUsed, call)
  /\ transcript' = Append(transcript, ToolTurn(call, r))

\* how an invocation goes: what the database answers, and whether the
\* handler is still running when the timeout is over
ToolOutcomes == [env : ToolEnvs, timedOut : BOOLEAN]

\* the body of `for tc in tool_calls` for the next invocation, which goes
\* as one of outcomes
InvocationStep(outcomes) ==
  /\ pc = "tools"
  /\ pending # <<>>
  /\ \E o \in outcomes :
       /\ o.timedOut => Len(hung) < MaxHung
       /\ ToolFedBack(Head(pending), ExecuteTool(Head(pending), o.env, o.timedOut))
  /\ pending' = Tail(pending)
  /\ calls' = [calls EXCEPT !.tool_exec = @ + 1]
  /\ pc' = IF Tail(pending) # <<>> THEN "tools"
           ELSE IF iterations < RoundLimit(mode) THEN "model"
           ELSE "final"
  /\ UNCHANGED <<sessionVars, mode, message, intentData, slimContext, narrativeBudget,
                 iterations, result, respLog, history, yielded, toYield, ghostVars,
                 sqlVars, fnVars, engineVars, toolVars>>

\* the invocation in a turn of its own
ExecuteNextToolOn(outcomes) == InvocationStep(outcomes) /\ UNCHANGED twinVars

ExecuteNextTool == ExecuteNextToolOn(ToolOutcomes)

\* what the streaming backend call yields: an HTTP error before any text,
\* the whole text, or a part of it and then a connection error
StreamResponses == [status : {"http_error", "ok", "broken"}, content : ContentInputs]

\* agent_chat_stream on the items of _call_ollama_stream: a str is yielded
\* as it comes, the dict ends the run with `item.get("text", full_text)`
StreamForwarded(s) ==
  Answers(s.chunks, TurnResult(s.text, toolsUsed, MAX_ITERATIONS, "", ""))

\* where the generator is after a yield: `return` follows the result dict
AfterYield_LoopsBack(rest) == IF rest = <<>> THEN "model" ELSE "yield"

AfterYield(rest) == IF rest = <<>> THEN "done" ELSE "yield"

\* the call after the rounds are used up: `_call_ollama(messages, tools=None)`
\* in agent_chat, `_call_ollama_stream(messages)` in agent_chat_stream
FinalCall ==
  /\ pc = "final"
  /\ \/ /\ mode = "chat"
        /\ \E resp \in {r \in ModelResponses : r.tool_calls = <<>>} :
             /\ Answers(<<>>, TurnResult(FinalText(resp.content), toolsUsed, iterations,
                                         "", ""))
             /\ respLog' = [respLog EXCEPT !.any_error = @ \/ resp.error]
        /\ calls' = [calls EXCEPT !.tool_free = @ + 1]
     \/ /\ mode = "stream"
        /\ \E sr \in StreamResponses :
             /\ StreamForwarded(OllamaStream(sr.status, Deltas(sr.content)))
             /\ respLog' = [respLog EXCEPT !.any_error = @ \/ sr.status # "ok"]
        /\ calls' = [calls EXCEPT !.streaming = @ + 1]
  /\ UNCHANGED <<sessionVars, storeVars, mode, message, intentData, slimContext,
                 narrativeBudget, pending, toolsUsed, iterations, history, transcript,
                 yielded, ghostVars, sqlVars, fnVars, twinVars, engineVars, toolVars>>

\* agent_chat_stream resumed: the next item is yielded to the caller
YieldItem ==
  /\ pc = "yield"
  /\ toYield # <<>>
  /\ yielded' = Append(yielded, Head(toYield))
  /\ toYield' = Tail(toYield)
  /\ pc' = AfterYield(Tail(toYield))
  /\ UNCHANGED <<sessionVars, storeVars, mode, message, intentData, slimContext,
                 narrativeBudget, pending, toolsUsed, iterations, result, calls, respLog,
                 history, transcript, ghostVars, sqlVars, fnVars, twinVars, engineVars, toolVars>>

\* ------------------------------------------------------------------------
\* Specifications
\* ------------------------------------------------------------------------
\* The agentic loop in full, behind a gate that sees two messages and three
\* classifier answers
LoopMessages ==
  {<<"m","o","r","e">>,
   <<"w","h","y"," ","s","o"," ","h","i","g","h">>}

LoopInterpreterResponses ==
  {InterpreterResponse("http_error", NoParsed),
   InterpreterResponse("json",
     Parsed(TRUE, TRUE, TRUE, "spend_total", TRUE, 90, "false", FALSE, EmptyFilters)),
   InterpreterResponse("json",
     Parsed(TRUE, TRUE, TRUE, "multi", TRUE, 90, "true", FALSE, EmptyFilters))}

Next ==
  \/ StartTurn(LoopMessages, {<<>>})
  \/ CallInterpreter(LoopInterpreterResponses)
  \/ GateDecision
  \/ ModelCall(ModelResponses)
  \/ ExecuteNextTool
  \/ FinalCall
  \/ YieldItem
  \/ HungToolFinishes

Spec == Init /\ [][Next]_vars

\* The gate in full (every message and classifier answer), in front of a
\* backend that answers the first round without tool calls or with an error
\* conversation_history values: none; three turns, one of them a system
\* turn and one long; seven turns, one of them empty and one a tool turn
HistoryInputs ==
  {<<>>,
   <<HistoryTurn("user", ShortText), HistoryTurn("system", ShortText),
     HistoryTurn("assistant", LongText)>>,
   <<HistoryTurn("user", LongText), HistoryTurn("assistant", ShortText),
     HistoryTurn("user", <<>>), HistoryTurn("assistant", ShortText),
     HistoryTurn("tool", ShortText), HistoryTurn("user", ShortText),
     HistoryTurn("assistant", ShortText)>>}

\* The agentic loop on every history, behind a gate that returns no record
\* or a record that needs a narrative
TranscriptInterpreterResponses ==
  {InterpreterResponse("http_error", NoParsed),
   InterpreterResponse("json",
     Parsed(TRUE, TRUE, TRUE, "multi", TRUE, 90, "true", FALSE, EmptyFilters))}

NextTranscript ==
  \/ StartTurn({<<"w","h","y"," ","s","o"," ","h","i","g","h">>}, HistoryInputs)
  \/ CallInterpreter(TranscriptInterpreterResponses)
  \/ GateDecision
  \/ ModelCall(ModelResponses)
  \/ ExecuteNextTool
  \/ FinalCall
  \/ YieldItem

SpecTranscript == Init /\ [][NextTranscript]_vars

GateModelResponses == {r \in ModelResponses : r.tool_calls = <<>> /\ r.content # <<>>}

NextGate ==
  \/ StartTurn(MessageInputs, {<<>>})
  \/ CallInterpreter(InterpreterResponses)
  \/ GateDecision
  \/ ModelCall(GateModelResponses)
  \/ YieldItem

SpecGate == Init /\ [][NextGate]_vars

\* The gate on every kind of outcome (no record: blank message, failed
\* call, bypass; a record: low confidence, narrative, unknown intent,
\* eligible and routed or misfired), in front of every history
HistoryMessages ==
  {<<>>, <<"m","o","r","e">>, <<"w","h","y"," ","s","o"," ","h","i","g","h">>}

HistoryInterpreterResponses ==
  {InterpreterResponse("http_error", NoParsed),
   InterpreterResponse("json",
     Parsed(TRUE, TRUE, TRUE, "spend_total", TRUE, 74, "false", FALSE, EmptyFilters)),
   InterpreterResponse("json",
     Parsed(TRUE, TRUE, TRUE, "multi", TRUE, 90, "true", FALSE, EmptyFilters)),
   InterpreterResponse("json",
     Parsed(TRUE, TRUE, TRUE, "unknown", TRUE, 90, "false", FALSE, EmptyFilters)),
   InterpreterResponse("json",
     Parsed(TRUE, TRUE, TRUE, "spend_total", TRUE, 90, "false", FALSE, EmptyFilters))}

\* a text of exactly 500 characters
FullText == [i \in 1..HISTORY_CHARS |-> "y"]

HistoryWindows ==
  HistoryInputs
    \cup {<<HistoryTurn("assistant", ShortText), HistoryTurn("user", FullText),
            HistoryTurn("assistant", LongText)>>}

NextHistory ==
  \/ StartTurn(HistoryMessages, HistoryWindows)
  \/ CallInterpreter(HistoryInterpreterResponses)
  \/ GateDecision
  \/ ModelCall(GateModelResponses)
  \/ YieldItem

SpecHistory == Init /\ [][NextHistory]_vars


\* _execute_sql on every statement of SqlInputs
InitSql == InitProgram /\ fnIn = NoInput /\ sqlIn \in SqlInputs

\* the result r of the call, recorded and committed
SqlReturns(r, n) ==
  /\ sqlOut' = [ran |-> TRUE, res |-> r, yields |-> n]
  /\ store' = Commit(store, r.wrote)

RunExecuteSql ==
  /\ ~sqlOut.ran
  /\ \E dbRows \in {0, ROW_CAP, ROW_CAP + 1}, dbFails \in BOOLEAN :
       SqlReturns(ExecuteSql(sqlIn, dbRows, dbFails), dbRows)
  /\ UNCHANGED <<sessionVars, hung, turnVars, ghostVars, sqlIn, fnVars, twinVars, engineVars, toolVars>>

NextSql == RunExecuteSql

SpecSql == InitSql /\ [][NextSql]_vars

\* The tool executor on every tool name and argument shape, and
\* _execute_write on every table name
SqlBlockedLower == <<"S","E","L","E","C","T"," ","1",";","d","r","o","p"," ","t","a","b","l","e"," ","n","o","t","e","s">>

ArgShapes(n) ==
  IF n \in {"create_reminder", "add_expense", "save_note"}
    THEN {"ok", "bad_type", "not_dict"}
  ELSE IF n = "mark_item_done" THEN {"ok", "bad_type", "zero_id", "bad_item", "not_dict"}
  ELSE IF n = "create_automation_rule"
    THEN {"ok", "bad_type", "bad_trigger", "bad_action", "not_dict"}
  ELSE IF n \in ToolNames THEN {"ok", "not_dict"}
  ELSE {"ok"}

ToolInputs ==
  {ToolCall("query_database", q, "ok") : q \in {SqlPlain, SqlBlockedLower, SqlCloakedWrite}}
    \cup {ToolCall(n, <<>>, a) :
            n \in ToolNames \cup {"drop_database", ""},
            a \in {"ok", "bad_type", "zero_id", "bad_item", "bad_trigger", "bad_action",
                   "not_dict"}}

ToolInputsShaped ==
  {c \in ToolInputs : c.arg \in ArgShapes(c.name)
                      /\ (c.name = "query_database" /\ c.arg = "ok" => c.sql # <<>>)}

\* the result r of a call through `via`, recorded and committed
ToolReturns(via, r, timedOut) ==
  /\ ToolCommits(r)
  /\ toolOut' = [ran |-> TRUE, via |-> via, error |-> r.error, wrote |-> r.wrote,
                 before |-> store, raised |-> r.raised, timeout_of |-> r.timeout_of,
                 timedOut |-> timedOut, slow |-> timedOut, busy |-> Len(hung)]

RunExecuteTool ==
  /\ \E call \in ToolInputsShaped, env \in ToolEnvs, timedOut \in BOOLEAN :
       /\ timedOut => Len(hung) < MaxHung
       /\ toolIn' = call
       /\ ToolReturns("execute_tool", ExecuteTool(call, env, timedOut), timedOut)
  /\ UNCHANGED <<sessionVars, turnVars, ghostVars, sqlVars, fnVars, twinVars, engineVars>>

\* the result r of a direct call of _execute_write, recorded and committed
WriteReturns(r) ==
  /\ MayCommit(r.wrote)
  /\ store' = Commit(store, r.wrote)
  /\ toolOut' = [ran |-> TRUE, via |-> "_execute_write", error |-> r.error,
                 wrote |-> r.wrote, before |-> store, raised |-> FALSE,
                 timeout_of |-> "", timedOut |-> FALSE, slow |-> FALSE, busy |-> 0]

RunExecuteWrite ==
  /\ \E table \in Tables \cup {"complete_reminder"}, idOk \in BOOLEAN, dbFails \in BOOLEAN :
       /\ toolIn' = ToolCall(table, <<>>, IF idOk THEN "ok" ELSE "zero_id")
       /\ WriteReturns(ExecuteWrite(table, idOk, dbFails))
  /\ UNCHANGED <<sessionVars, hung, turnVars, ghostVars, sqlVars, fnVars, twinVars, engineVars>>

NextTools ==
  \/ RunExecuteTool
  \/ RunExecuteWrite
  \/ HungToolFinishes

SpecTools == Init /\ [][NextTools]_vars

\* ------------------------------------------------------------------------
\* The worker pool of execute_tool
\* ------------------------------------------------------------------------
\* ThreadPoolExecutor(max_workers=4): a submitted call is started when a
\* worker is idle; `running` are the handlers that timed out and have not
\* ended, each of them holding a worker
WorkerIdle(running) == Len(running) < MAX_WORKERS

\* execute_tool on a call whose handler is slow (runs past the timeout) or
\* fast: with no idle worker the call waits in the queue of the pool until
\* fut.result(timeout=20) raises, and fut.cancel() removes it unstarted
Submitted(call, env, slow, running) ==
  IF WorkerIdle(running)
    THEN ExecuteTool(call, env, slow)
    ELSE [error |-> "timed out", wrote |-> NoTable, late |-> <<>>,
          raised |-> FALSE, timeout_of |-> call.name]

\* the invocations of this specification: a write and a search
PoolCalls == {ToolCall("save_note", <<>>, "ok"), ToolCall("search_knowledge", <<>>, "ok")}

\* the result r of execute_tool on a call with a slow or a fast handler
PoolReturns(r, slow) ==
  /\ ToolCommits(r)
  /\ toolOut' = [ran |-> TRUE, via |-> "execute_tool", error |-> r.error,
                 wrote |-> r.wrote, before |-> store, raised |-> r.raised,
                 timeout_of |-> r.timeout_of, timedOut |-> r.timeout_of # "",
                 slow |-> slow, busy |-> Len(hung)]

RunPooledTool ==
  /\ \E call \in PoolCalls, env \in ToolEnvs, slow \in BOOLEAN :
       /\ toolIn' = call
       /\ PoolReturns(Submitted(call, env, slow, hung), slow)
  /\ UNCHANGED <<sessionVars, turnVars, ghostVars, sqlVars, fnVars, twinVars, engineVars>>

NextPool ==
  \/ RunPooledTool
  \/ HungToolFinishes

SpecPool == Init /\ [][NextPool]_vars

\* ------------------------------------------------------------------------
\* engine.main: JSON lines from stdin, JSON lines to stdout
\* ------------------------------------------------------------------------
\* lines of stdin the loop takes before stdin ends
MaxLines == 3

\* text chunks one run of agent_chat_stream yields
MaxChunks == 1

Null == "null"

\* a terminal line {"id", "result", "error"}
Envelope(id, res, err) == [kind |-> "envelope", id |-> id, result |-> res, error |-> err]

\* a line {"id", "chunk"}
ChunkLine(id) == [kind |-> "chunk", id |-> id, result |-> "absent", error |-> "absent"]

ReadyMsg == Envelope(0, "value", Null)

NoId == -1

\* the request types handle_request dispatches on
KnownRequestTypes ==
  {"ping", "check_imports", "priorities", "intent", "generate", "index",
   "batch_index", "search", "vector_count", "agent_chat", "hybrid_search",
   "build_bm25"}

\* the values json.loads gives for a line: a request object with or
\* without its keys, or a JSON value that is not an object
RequestObjects ==
  [json : {"object"},
   id : {"absent", "present"},
   type : {"absent", "ping", "intent", "agent_chat", "agent_stream", "nope"},
   payload : {"absent", "dict", "string"}]

NonObjects ==
  [json : {"array", "number"}, id : {"absent"}, type : {"absent"}, payload : {"absent"}]

\* line.strip() and json.loads(line): blank, not JSON, or the value
StdinLines ==
  [text : {"blank", "invalid"}, req : {NoLine.req}]
    \cup [text : {"json"}, req : RequestObjects \cup NonObjects]

\* req.get("id", -1); a present id is 7
ReqId(r) == IF r.id = "absent" THEN NoId ELSE 7

\* what the code behind the dispatch does in one call: the handler returns
\* or raises; agent_chat_stream yields `chunks` strings and then its dict,
\* or raises after them
HandlerRuns == [chunks : 0..MaxChunks, ends : {"returns", "raises"}]

\* an unknown request type answered like a known one
HandleRequest_IgnoresUnknown(r, run) == "value"

\* handle_request: the result, or the exception the caller catches
HandleRequest(r, run) ==
  IF r.type \in {"ping", "check_imports"} THEN "value"
  ELSE IF r.type \in KnownRequestTypes
    THEN IF r.payload = "string" THEN "AttributeError"
         ELSE IF run.ends = "raises" THEN "Exception" ELSE "value"
  ELSE "ValueError"

\* the normal branch: try handle_request, except Exception
NormalBranch(r, run) ==
  LET res == HandleRequest(r, run)
  IN <<IF res = "value" THEN Envelope(ReqId(r), "value", Null)
       ELSE Envelope(ReqId(r), Null, res)>>

\* the envelope written as soon as the generator is started
StreamBranch_EnvelopeFirst(r, run) ==
  <<Envelope(ReqId(r), "value", Null)>>
    \o [i \in 1..run.chunks |-> ChunkLine(ReqId(r))]

\* the agent_stream branch: chunk lines as they come, then the envelope
StreamBranch(r, run) ==
  IF r.payload = "string"
    THEN <<Envelope(ReqId(r), Null, "AttributeError")>>
  ELSE [i \in 1..run.chunks |-> ChunkLine(ReqId(r))]
         \o <<IF run.ends = "raises"
               THEN Envelope(ReqId(r), Null, "Exception")
               ELSE Envelope(ReqId(r), "value", Null)>>

\* the statements before the loop: the ready line
MainStart ==
  /\ enginePc = "start"
  /\ stdout' = <<ReadyMsg>>
  /\ enginePc' = "reading"
  /\ UNCHANGED <<linesHandled, curLine, toWrite, sessionVars, storeVars,
                 turnVars, ghostVars, sqlVars, fnVars, twinVars, toolVars>>

\* one iteration of `for line in sys.stdin`, up to the first line the
\* agent_stream branch writes
MainLoopStep ==
  /\ enginePc = "reading"
  /\ linesHandled < MaxLines
  /\ \E line \in StdinLines, run \in HandlerRuns :
       IF line.text = "blank"
         THEN UNCHANGED engineVars
       ELSE /\ curLine' = line
            /\ linesHandled' = linesHandled + 1
            /\ IF line.text = "invalid"
                 THEN /\ stdout' = Append(stdout, Envelope(NoId, Null, "Invalid JSON"))
                      /\ UNCHANGED <<enginePc, toWrite>>
               ELSE IF line.req.json # "object"
                 THEN /\ enginePc' = "crashed"
                      /\ UNCHANGED <<stdout, toWrite>>
               ELSE IF line.req.type = "agent_stream"
                 THEN /\ toWrite' = StreamBranch(line.req, run)
                      /\ enginePc' = "streaming"
                      /\ UNCHANGED stdout
               ELSE /\ stdout' = stdout \o NormalBranch(line.req, run)
                    /\ UNCHANGED <<enginePc, toWrite>>
  /\ UNCHANGED <<sessionVars, storeVars, turnVars, ghostVars, sqlVars, fnVars, twinVars, toolVars>>

\* the agent_stream branch writes its next line and flushes
StreamWrite ==
  /\ enginePc = "streaming"
  /\ stdout' = Append(stdout, Head(toWrite))
  /\ toWrite' = Tail(toWrite)
  /\ enginePc' = IF Tail(toWrite) = <<>> THEN "reading" ELSE "streaming"
  /\ UNCHANGED <<linesHandled, curLine, sessionVars, storeVars, turnVars,
                 ghostVars, sqlVars, fnVars, twinVars, toolVars>>

\* stdin ends: the loop and main return
StdinEof ==
  /\ enginePc = "reading"
  /\ enginePc' = "exited"
  /\ UNCHANGED <<stdout, linesHandled, curLine, toWrite, sessionVars, storeVars,
                 turnVars, ghostVars, sqlVars, fnVars, twinVars, toolVars>>

NextEngine ==
  \/ MainStart
  \/ MainLoopStep
  \/ StreamWrite
  \/ StdinEof

SpecEngine == Init /\ [][NextEngine]_vars

\* ------------------------------------------------------------------------
\* agent_chat and agent_chat_stream on the same inputs
\* ------------------------------------------------------------------------
\* A call of agent_chat, then a call of agent_chat_stream from the session
\* state and the store the first call started from, with the same message,
\* on the same answers of the classifier, the store, the backend and the
\* tools: the second call is given, step by step, what the first one got.
\* Only the rounds both functions have are run, the first
\* MAX_ITERATIONS - 1.
RefMessages ==
  {<<>>,
   <<"m","o","r","e">>,
   <<"L","a","s","t"," ","M","o","n","t","h">>,
   <<"w","h","y"," ","s","o"," ","h","i","g","h">>}

RefInterpreterResponses ==
  LoopInterpreterResponses
    \cup {InterpreterResponse("json",
             Parsed(TRUE, TRUE, TRUE, "inbox_count", TRUE, 90, "false", TRUE, EmptyFilters))}

\* the backend's answers to a tool-supplying call: an error, a content,
\* an empty content, one tool call
RefModelResponses ==
  {r \in ModelResponses : r.content # <<" ", "\n">> /\ Len(r.tool_calls) <= 1}

\* an invocation that returns in time, and one that times out
RefToolOutcomes == {o \in ToolOutcomes : ~o.env.dbFails}

\* agent_chat is called
StartChat ==
  /\ pc \in {"idle", "done", "raised"}
  /\ twin.phase # "chat"
  /\ \E m \in RefMessages : TurnBegins(m, "chat", <<>>)
  /\ twin' = [phase |-> "chat",
              before |-> [failCount |-> failCount, misfireCount |-> misfireCount,
                          lastDet |-> lastDet, store |-> store, hung |-> hung,
                          failStreak |-> failStreak, interpLog |-> interpLog],
              inputs |-> NoTwin.inputs,
              chat |-> NoTwin.chat]
  /\ UNCHANGED <<sessionVars, storeVars, ghostVars, sqlVars, fnVars, engineVars, toolVars>>

\* agent_chat has ended; agent_chat_stream is called with the same
\* arguments, from the state agent_chat was called in
StartStream ==
  /\ pc \in {"done", "raised"}
  /\ twin.phase = "chat"
  /\ TurnBegins(message, "stream", history)
  /\ failCount' = twin.before.failCount
  /\ misfireCount' = twin.before.misfireCount
  /\ lastDet' = twin.before.lastDet
  /\ store' = twin.before.store
  /\ hung' = twin.before.hung
  /\ failStreak' = twin.before.failStreak
  /\ interpLog' = twin.before.interpLog
  /\ twin' = [twin EXCEPT !.phase = "stream",
                          !.chat = [pc |-> pc, result |-> result, failCount |-> failCount,
                                    misfireCount |-> misfireCount, lastDet |-> lastDet]]
  /\ UNCHANGED <<sqlVars, fnVars, engineVars, toolVars>>

\* what the first call is free to get, and what the second call is given
Given(free, got) == IF twin.phase = "chat" THEN free ELSE got

TwinCallInterpreter ==
  \E r \in Given(RefInterpreterResponses, {twin.inputs.interp}) :
    /\ InterpreterStep({r})
    /\ twin' = [twin EXCEPT !.inputs.interp =
                  IF InterpreterGuards(message, failCount, lastDet).decided THEN @ ELSE r]

TwinGateDecision ==
  \E db \in Given(DbViews, {twin.inputs.db}) :
    /\ GateStep({db})
    /\ twin' = [twin EXCEPT !.inputs.db =
                  IF intentData # None /\ DeterministicEligible(intentData) THEN db ELSE @]

TwinModelCall ==
  /\ iterations < MAX_ITERATIONS - 1
  /\ \E r \in Given(RefModelResponses,
                     {twin.inputs.resps[i] :
                        i \in {calls.with_tools + 1} \cap DOMAIN twin.inputs.resps}) :
       /\ RoundStep({r})
       /\ twin' = [twin EXCEPT !.inputs.resps = Given(Append(@, r), @)]

TwinExecuteNextTool ==
  \E o \in Given(RefToolOutcomes,
                  {twin.inputs.tools[i] :
                     i \in {calls.tool_exec + 1} \cap DOMAIN twin.inputs.tools}) :
    /\ InvocationStep({o})
    /\ twin' = [twin EXCEPT !.inputs.tools = Given(Append(@, o), @)]

\* agent_chat_stream resumed until it returns
TwinYieldItem == YieldItem

NextRefine ==
  \/ StartChat
  \/ StartStream
  \/ TwinCallInterpreter
  \/ TwinGateDecision
  \/ TwinModelCall
  \/ TwinExecuteNextTool
  \/ TwinYieldItem

SpecRefine == Init /\ [][NextRefine]_vars

\* ------------------------------------------------------------------------
\* Category resolution (agent.py and intents.py)
\* ------------------------------------------------------------------------
\* CATEGORY_SYNONYMS of agent.py, as (synonym, category) pairs
CATEGORY_SYNONYMS ==
  {<<<<"d","i","n","i","n","g">>, <<"f","o","o","d">>>>,
   <<<<"r","e","s","t","a","u","r","a","n","t">>, <<"f","o","o","d">>>>,
   <<<<"c","a","f","e">>, <<"f","o","o","d">>>>,
   <<<<"t","a","k","e","o","u","t">>, <<"f","o","o","d">>>>,
   <<<<"e","a","t","i","n","g">>, <<"f","o","o","d">>>>,
   <<<<"l","u","n","c","h">>, <<"f","o","o","d">>>>,
   <<<<"d","i","n","n","e","r">>, <<"f","o","o","d">>>>,
   <<<<"b","r","e","a","k","f","a","s","t">>, <<"f","o","o","d">>>>,
   <<<<"m","e","a","l","s">>, <<"f","o","o","d">>>>,
   <<<<"s","n","a","c","k","s">>, <<"f","o","o","d">>>>,
   <<<<"d","e","l","i","v","e","r","y">>, <<"f","o","o","d">>>>,
   <<<<"c","o","m","m","u","t","e">>, <<"t","r","a","v","e","l">>>>,
   <<<<"t","r","a","n","s","p","o","r","t">>, <<"t","r","a","v","e","l">>>>,
   <<<<"r","i","d","e">>, <<"t","r","a","v","e","l">>>>,
   <<<<"c","a","b">>, <<"t","r","a","v","e","l">>>>,
   <<<<"t","a","x","i">>, <<"t","r","a","v","e","l">>>>,
   <<<<"f","l","i","g","h","t">>, <<"t","r","a","v","e","l">>>>,
   <<<<"h","o","t","e","l">>, <<"t","r","a","v","e","l">>>>,
   <<<<"t","r","i","p">>, <<"t","r","a","v","e","l">>>>,
   <<<<"b","u","s">>, <<"t","r","a","v","e","l">>>>,
   <<<<"t","r","a","i","n">>, <<"t","r","a","v","e","l">>>>,
   <<<<"m","e","t","r","o">>, <<"t","r","a","v","e","l">>>>,
   <<<<"a","u","t","o">>, <<"t","r","a","v","e","l">>>>,
   <<<<"s","t","r","e","a","m","i","n","g">>, <<"e","n","t","e","r","t","a","i","n","m","e","n","t">>>>,
   <<<<"m","o","v","i","e","s">>, <<"e","n","t","e","r","t","a","i","n","m","e","n","t">>>>,
   <<<<"g","a","m","i","n","g">>, <<"e","n","t","e","r","t","a","i","n","m","e","n","t">>>>,
   <<<<"m","u","s","i","c">>, <<"e","n","t","e","r","t","a","i","n","m","e","n","t">>>>,
   <<<<"o","t","t">>, <<"e","n","t","e","r","t","a","i","n","m","e","n","t">>>>,
   <<<<"c","i","n","e","m","a">>, <<"e","n","t","e","r","t","a","i","n","m","e","n","t">>>>,
   <<<<"m","e","d","i","c","i","n","e">>, <<"h","e","a","l","t","h">>>>,
   <<<<"h","o","s","p","i","t","a","l">>, <<"h","e","a","l","t","h">>>>,
   <<<<"d","o","c","t","o","r">>, <<"h","e","a","l","t","h">>>>,
   <<<<"p","h","a","r","m","a","c","y">>, <<"h","e","a","l","t","h">>>>,
   <<<<"g","y","m">>, <<"h","e","a","l","t","h">>>>,
   <<<<"f","i","t","n","e","s","s">>, <<"h","e","a","l","t","h">>>>,
   <<<<"e","l","e","c","t","r","i","c","i","t","y">>, <<"u","t","i","l","i","t","i","e","s">>>>,
   <<<<"i","n","t","e","r","n","e","t">>, <<"u","t","i","l","i","t","i","e","s">>>>,
   <<<<"w","i","f","i">>, <<"u","t","i","l","i","t","i","e","s">>>>,
   <<<<"b","r","o","a","d","b","a","n","d">>, <<"u","t","i","l","i","t","i","e","s">>>>,
   <<<<"p","h","o","n","e">>, <<"u","t","i","l","i","t","i","e","s">>>>,
   <<<<"b","i","l","l">>, <<"u","t","i","l","i","t","i","e","s">>>>,
   <<<<"c","l","o","t","h","e","s">>, <<"s","h","o","p","p","i","n","g">>>>,
   <<<<"c","l","o","t","h","i","n","g">>, <<"s","h","o","p","p","i","n","g">>>>,
   <<<<"f","a","s","h","i","o","n">>, <<"s","h","o","p","p","i","n","g">>>>,
   <<<<"e","l","e","c","t","r","o","n","i","c","s">>, <<"s","h","o","p","p","i","n","g">>>>,
   <<<<"g","a","d","g","e","t","s">>, <<"s","h","o","p","p","i","n","g">>>>,
   <<<<"g","r","o","c","e","r","y">>, <<"g","r","o","c","e","r","i","e","s">>>>,
   <<<<"s","u","p","e","r","m","a","r","k","e","t">>, <<"g","r","o","c","e","r","i","e","s">>>>,
   <<<<"v","e","g","e","t","a","b","l","e","s">>, <<"g","r","o","c","e","r","i","e","s">>>>,
   <<<<"p","e","t","r","o","l">>, <<"f","u","e","l">>>>,
   <<<<"d","i","e","s","e","l">>, <<"f","u","e","l">>>>,
   <<<<"c","n","g">>, <<"f","u","e","l">>>>,
   <<<<"l","o","a","n">>, <<"e","m","i">>>>,
   <<<<"m","o","r","t","g","a","g","e">>, <<"e","m","i">>>>,
   <<<<"i","n","s","t","a","l","l","m","e","n","t">>, <<"e","m","i">>>>,
   <<<<"r","e","c","u","r","r","i","n","g">>, <<"s","u","b","s","c","r","i","p","t","i","o","n","s">>>>,
   <<<<"m","e","m","b","e","r","s","h","i","p">>, <<"s","u","b","s","c","r","i","p","t","i","o","n","s">>>>,
   <<<<"s","t","o","c","k","s">>, <<"i","n","v","e","s","t","m","e","n","t","s">>>>,
   <<<<"s","i","p">>, <<"i","n","v","e","s","t","m","e","n","t","s">>>>,
   <<<<"m","u","t","u","a","l"," ","f","u","n","d">>, <<"i","n","v","e","s","t","m","e","n","t","s">>>>,
   <<<<"p","r","e","m","i","u","m">>, <<"i","n","s","u","r","a","n","c","e">>>>,
   <<<<"p","o","l","i","c","y">>, <<"i","n","s","u","r","a","n","c","e">>>>,
   <<<<"m","o","b","i","l","e">>, <<"r","e","c","h","a","r","g","e">>>>,
   <<<<"p","r","e","p","a","i","d">>, <<"r","e","c","h","a","r","g","e">>>>,
   <<<<"t","u","i","t","i","o","n">>, <<"e","d","u","c","a","t","i","o","n">>>>,
   <<<<"c","o","u","r","s","e">>, <<"e","d","u","c","a","t","i","o","n">>>>}

\* CATEGORY_SYNONYMS of intents.py, as (synonym, category) pairs
INTENTS_CATEGORY_SYNONYMS ==
  {<<<<"d","i","n","i","n","g">>, <<"f","o","o","d">>>>,
   <<<<"r","e","s","t","a","u","r","a","n","t">>, <<"f","o","o","d">>>>,
   <<<<"r","e","s","t","a","u","r","a","n","t","s">>, <<"f","o","o","d">>>>,
   <<<<"c","a","f","e">>, <<"f","o","o","d">>>>,
   <<<<"t","a","k","e","o","u","t">>, <<"f","o","o","d">>>>,
   <<<<"d","e","l","i","v","e","r","y">>, <<"f","o","o","d">>>>,
   <<<<"e","a","t","i","n","g">>, <<"f","o","o","d">>>>,
   <<<<"e","a","t">>, <<"f","o","o","d">>>>,
   <<<<"l","u","n","c","h">>, <<"f","o","o","d">>>>,
   <<<<"d","i","n","n","e","r">>, <<"f","o","o","d">>>>,
   <<<<"b","r","e","a","k","f","a","s","t">>, <<"f","o","o","d">>>>,
   <<<<"s","n","a","c","k","s">>, <<"f","o","o","d">>>>,
   <<<<"m","e","a","l","s">>, <<"f","o","o","d">>>>,
   <<<<"m","e","a","l">>, <<"f","o","o","d">>>>,
   <<<<"c","o","m","m","u","t","e">>, <<"t","r","a","v","e","l">>>>,
   <<<<"t","r","a","n","s","p","o","r","t">>, <<"t","r","a","v","e","l">>>>,
   <<<<"t","r","a","n","s","p","o","r","t","a","t","i","o","n">>, <<"t","r","a","v","e","l">>>>,
   <<<<"r","i","d","e">>, <<"t","r","a","v","e","l">>>>,
   <<<<"r","i","d","e","s">>, <<"t","r","a","v","e","l">>>>,
   <<<<"c","a","b">>, <<"t","r","a","v","e","l">>>>,
   <<<<"c","a","b","s">>, <<"t","r","a","v","e","l">>>>,
   <<<<"t","a","x","i">>, <<"t","r","a","v","e","l">>>>,
   <<<<"f","l","i","g","h","t">>, <<"t","r","a","v","e","l">>>>,
   <<<<"f","l","i","g","h","t","s">>, <<"t","r","a","v","e","l">>>>,
   <<<<"h","o","t","e","l">>, <<"t","r","a","v","e","l">>>>,
   <<<<"h","o","t","e","l","s">>, <<"t","r","a","v","e","l">>>>,
   <<<<"t","r","i","p">>, <<"t","r","a","v","e","l">>>>,
   <<<<"t","r","i","p","s">>, <<"t","r","a","v","e","l">>>>,
   <<<<"b","u","s">>, <<"t","r","a","v","e","l">>>>,
   <<<<"t","r","a","i","n">>, <<"t","r","a","v","e","l">>>>,
   <<<<"m","e","t","r","o">>, <<"t","r","a","v","e","l">>>>,
   <<<<"a","u","t","o">>, <<"t","r","a","v","e","l">>>>,
   <<<<"s","t","r","e","a","m","i","n","g">>, <<"e","n","t","e","r","t","a","i","n","m","e","n","t">>>>,
   <<<<"m","o","v","i","e","s">>, <<"e","n","t","e","r","t","a","i","n","m","e","n","t">>>>,
   <<<<"m","o","v","i","e">>, <<"e","n","t","e","r","t","a","i","n","m","e","n","t">>>>,
   <<<<"g","a","m","i","n","g">>, <<"e","n","t","e","r","t","a","i","n","m","e","n","t">>>>,
   <<<<"g","a","m","e","s">>, <<"e","n","t","e","r","t","a","i","n","m","e","n","t">>>>,
   <<<<"m","u","s","i","c">>, <<"e","n","t","e","r","t","a","i","n","m","e","n","t">>>>,
   <<<<"s","h","o","w","s">>, <<"e","n","t","e","r","t","a","i","n","m","e","n","t">>>>,
   <<<<"o","t","t">>, <<"e","n","t","e","r","t","a","i","n","m","e","n","t">>>>,
   <<<<"c","i","n","e","m","a">>, <<"e","n","t","e","r","t","a","i","n","m","e","n","t">>>>,
   <<<<"m","e","d","i","c","i","n","e">>, <<"h","e","a","l","t","h">>>>,
   <<<<"m","e","d","i","c","i","n","e","s">>, <<"h","e","a","l","t","h">>>>,
   <<<<"h","o","s","p","i","t","a","l">>, <<"h","e","a","l","t","h">>>>,
   <<<<"d","o","c","t","o","r">>, <<"h","e","a","l","t","h">>>>,
   <<<<"p","h","a","r","m","a","c","y">>, <<"h","e","a","l","t","h">>>>,
   <<<<"m","e","d","i","c","a","l">>, <<"h","e","a","l","t","h">>>>,
   <<<<"g","y","m">>, <<"h","e","a","l","t","h">>>>,
   <<<<"f","i","t","n","e","s","s">>, <<"h","e","a","l","t","h">>>>,
   <<<<"w","e","l","l","n","e","s","s">>, <<"h","e","a","l","t","h">>>>,
   <<<<"d","e","n","t","a","l">>, <<"h","e","a","l","t","h">>>>,
   <<<<"c","l","i","n","i","c">>, <<"h","e","a","l","t","h">>>>,
   <<<<"e","l","e","c","t","r","i","c","i","t","y">>, <<"u","t","i","l","i","t","i","e","s">>>>,
   <<<<"e","l","e","c","t","r","i","c">>, <<"u","t","i","l","i","t","i","e","s">>>>,
   <<<<"i","n","t","e","r","n","e","t">>, <<"u","t","i","l","i","t","i","e","s">>>>,
   <<<<"p","h","o","n","e">>, <<"u","t","i","l","i","t","i","e","s">>>>,
   <<<<"w","i","f","i">>, <<"u","t","i","l","i","t","i","e","s">>>>,
   <<<<"b","r","o","a","d","b","a","n","d">>, <<"u","t","i","l","i","t","i","e","s">>>>,
   <<<<"b","i","l","l">>, <<"u","t","i","l","i","t","i","e","s">>>>,
   <<<<"b","i","l","l","s">>, <<"u","t","i","l","i","t","i","e","s">>>>,
   <<<<"c","l","o","t","h","e","s">>, <<"s","h","o","p","p","i","n","g">>>>,
   <<<<"c","l","o","t","h","i","n","g">>, <<"s","h","o","p","p","i","n","g">>>>,
   <<<<"s","h","o","e","s">>, <<"s","h","o","p","p","i","n","g">>>>,
   <<<<"f","a","s","h","i","o","n">>, <<"s","h","o","p","p","i","n","g">>>>,
   <<<<"e","l","e","c","t","r","o","n","i","c","s">>, <<"s","h","o","p","p","i","n","g">>>>,
   <<<<"g","a","d","g","e","t","s">>, <<"s","h","o","p","p","i","n","g">>>>,
   <<<<"m","u","t","u","a","l"," ","f","u","n","d">>, <<"i","n","v","e","s","t","m","e","n","t","s">>>>,
   <<<<"m","u","t","u","a","l"," ","f","u","n","d","s">>, <<"i","n","v","e","s","t","m","e","n","t","s">>>>,
   <<<<"s","t","o","c","k","s">>, <<"i","n","v","e","s","t","m","e","n","t","s">>>>,
   <<<<"s","i","p">>, <<"i","n","v","e","s","t","m","e","n","t","s">>>>,
   <<<<"t","r","a","d","i","n","g">>, <<"i","n","v","e","s","t","m","e","n","t","s">>>>,
   <<<<"c","r","y","p","t","o">>, <<"i","n","v","e","s","t","m","e","n","t","s">>>>,
   <<<<"l","o","a","n">>, <<"e","m","i">>>>,
   <<<<"l","o","a","n","s">>, <<"e","m","i">>>>,
   <<<<"m","o","r","t","g","a","g","e">>, <<"e","m","i">>>>,
   <<<<"i","n","s","t","a","l","l","m","e","n","t">>, <<"e","m","i">>>>,
   <<<<"t","u","i","t","i","o","n">>, <<"e","d","u","c","a","t","i","o","n">>>>,
   <<<<"c","o","u","r","s","e">>, <<"e","d","u","c","a","t","i","o","n">>>>,
   <<<<"c","o","u","r","s","e","s">>, <<"e","d","u","c","a","t","i","o","n">>>>,
   <<<<"s","c","h","o","o","l">>, <<"e","d","u","c","a","t","i","o","n">>>>,
   <<<<"c","o","l","l","e","g","e">>, <<"e","d","u","c","a","t","i","o","n">>>>,
   <<<<"l","e","a","r","n","i","n","g">>, <<"e","d","u","c","a","t","i","o","n">>>>,
   <<<<"p","e","t","r","o","l">>, <<"f","u","e","l">>>>,
   <<<<"d","i","e","s","e","l">>, <<"f","u","e","l">>>>,
   <<<<"c","n","g">>, <<"f","u","e","l">>>>,
   <<<<"g","r","o","c","e","r","y">>, <<"g","r","o","c","e","r","i","e","s">>>>,
   <<<<"s","u","p","e","r","m","a","r","k","e","t">>, <<"g","r","o","c","e","r","i","e","s">>>>,
   <<<<"v","e","g","e","t","a","b","l","e","s">>, <<"g","r","o","c","e","r","i","e","s">>>>,
   <<<<"f","r","u","i","t","s">>, <<"g","r","o","c","e","r","i","e","s">>>>,
   <<<<"p","r","o","v","i","s","i","o","n","s">>, <<"g","r","o","c","e","r","i","e","s">>>>,
   <<<<"e","s","s","e","n","t","i","a","l","s">>, <<"g","r","o","c","e","r","i","e","s">>>>,
   <<<<"p","r","e","m","i","u","m">>, <<"i","n","s","u","r","a","n","c","e">>>>,
   <<<<"p","r","e","m","i","u","m","s">>, <<"i","n","s","u","r","a","n","c","e">>>>,
   <<<<"p","o","l","i","c","y">>, <<"i","n","s","u","r","a","n","c","e">>>>,
   <<<<"m","o","b","i","l","e">>, <<"r","e","c","h","a","r","g","e">>>>,
   <<<<"p","r","e","p","a","i","d">>, <<"r","e","c","h","a","r","g","e">>>>,
   <<<<"p","o","s","t","p","a","i","d">>, <<"r","e","c","h","a","r","g","e">>>>,
   <<<<"r","e","c","u","r","r","i","n","g">>, <<"s","u","b","s","c","r","i","p","t","i","o","n","s">>>>,
   <<<<"m","e","m","b","e","r","s","h","i","p">>, <<"s","u","b","s","c","r","i","p","t","i","o","n","s">>>>}

\* CANONICAL_CATEGORIES of intents.py
CANONICAL_CATEGORIES ==
  {<<"f","o","o","d">>,
   <<"s","h","o","p","p","i","n","g">>,
   <<"t","r","a","v","e","l">>,
   <<"e","n","t","e","r","t","a","i","n","m","e","n","t">>,
   <<"u","t","i","l","i","t","i","e","s">>,
   <<"h","e","a","l","t","h">>,
   <<"g","r","o","c","e","r","i","e","s">>,
   <<"s","u","b","s","c","r","i","p","t","i","o","n","s">>,
   <<"i","n","v","e","s","t","m","e","n","t","s">>,
   <<"i","n","s","u","r","a","n","c","e">>,
   <<"b","a","n","k","i","n","g">>,
   <<"e","d","u","c","a","t","i","o","n">>,
   <<"r","e","n","t">>,
   <<"e","m","i">>,
   <<"r","e","c","h","a","r","g","e">>,
   <<"f","u","e","l">>,
   <<"o","t","h","e","r">>}

\* a str value and the value None, as one kind of record
Str(s) == [none |-> FALSE, str |-> s]

PyNone == [none |-> TRUE, str |-> <<>>]

\* dict.get(key, default)
DictGet(table, key, default) ==
  IF \E p \in table : p[1] = key
    THEN Str((CHOOSE p \in table : p[1] = key)[2])
    ELSE default

\* _resolve_category of agent.py without .lower()
ResolveCategory_NoLower(cat) ==
  IF cat = <<>> THEN Str(cat)
  ELSE DictGet(CATEGORY_SYNONYMS, StrStrip(cat), Str(StrStrip(cat)))

\* _resolve_category of agent.py
ResolveCategory(cat) ==
  IF cat = <<>> THEN Str(cat)
  ELSE DictGet(CATEGORY_SYNONYMS, StrStrip(StrLower(cat)), Str(StrStrip(StrLower(cat))))

\* _resolve_category of intents.py
IntentsResolveCategory(word) ==
  IF StrStrip(StrLower(word)) \in CANONICAL_CATEGORIES
    THEN Str(StrStrip(StrLower(word)))
    ELSE DictGet(INTENTS_CATEGORY_SYNONYMS, StrStrip(StrLower(word)), PyNone)

\* ------------------------------------------------------------------------
\* The functions of the gate, each called alone on its inputs
\* ------------------------------------------------------------------------
\* words of a message of FollowupMessages
MaxWords == 3

\* " ".join(words)
RECURSIVE JoinWords(_)
JoinWords(ws) ==
  IF ws = <<>> THEN <<>>
  ELSE IF Len(ws) = 1 THEN ws[1]
  ELSE ws[1] \o <<" ">> \o JoinWords(Tail(ws))

FollowupTokens ==
  {<<"i","t">>, <<"M","o","r","e","?">>, <<"l","a","s","t">>, <<"f","o","o","d">>,
   <<"w","e","e","k">>, <<"?">>}

\* the message argument of _is_followup_message
FollowupMessages ==
  {JoinWords(ws) : ws \in SeqsUpTo(FollowupTokens, MaxWords)}
    \cup {<<" "," ">>,
          <<"w","h","a","t"," ","d","i","d"," ","I"," ","s","p","e","n","d"," ","o","n"," ",
            "f","o","o","d"," ","i","n"," ","M","a","r","c","h"," ","2","0","2","5">>}

FnCall(fn, arg) == [fn |-> fn, arg |-> arg]

FnReturns(v) == fnOut' = [ran |-> TRUE, val |-> v]

RunIsFollowupMessage ==
  /\ fnIn.fn = "_is_followup_message"
  /\ ~fnOut.ran
  /\ FnReturns(IsFollowupMessage(fnIn.arg.message))
  /\ UNCHANGED <<fnIn, twinVars, sessionVars, storeVars, turnVars, ghostVars, sqlIn, sqlOut,
                 toolVars, engineVars>>

\* confidence values of the interpreter's JSON: [kind, hundredths]
ConfidenceInputs ==
  {<<"number", v>> : v \in {-200, 0, 74, 75, 100, 500}}
    \cup {<<"numeric_string", 90>>, <<"bool", 100>>, <<"bool", 0>>, <<"nan", 0>>,
          <<"text", 0>>, <<"null", 0>>}

\* the parsed argument of _validate_interpreter_output
ValidateInputs ==
  {NoParsed}
    \cup {Parsed(TRUE, hi, hc, "spend_total", TRUE, 90, "false", FALSE, EmptyFilters) :
            hi \in BOOLEAN, hc \in BOOLEAN}
    \cup {[Parsed(TRUE, TRUE, TRUE, i, TRUE, c[2], nn, opt, Filters("dict", "year", "absent"))
             EXCEPT !.intent_padded = pad, !.conf_kind = c[1],
                    !.domain = IF opt THEN "finance" ELSE "absent",
                    !.action = IF opt THEN "query" ELSE "absent"] :
            i \in VALID_INTENTS \cup {"make_coffee", "inject_sql"},
            pad \in BOOLEAN,
            c \in ConfidenceInputs,
            nn \in {"absent", "true", "false", "null", "string"},
            opt \in BOOLEAN}

RunValidateInterpreterOutput ==
  /\ fnIn.fn = "_validate_interpreter_output"
  /\ ~fnOut.ran
  /\ FnReturns(ValidateInterpreterOutput(fnIn.arg))
  /\ UNCHANGED <<fnIn, twinVars, sessionVars, storeVars, turnVars, ghostVars, sqlIn, sqlOut,
                 toolVars, engineVars>>

\* the intent_data and the store _route_deterministic is called with
RouteInputs ==
  [intent_data :
     {IntentRecord(i, 90, FALSE, f, "unknown", "unknown") :
        i \in VALID_INTENTS \cup {"make_coffee"},
        f \in FilterInputs \cup {Filters("dict", "nonstring", "absent"),
                                 Filters("falsy", "absent", "absent")}},
   db : DbViews]

RunRouteDeterministic ==
  /\ fnIn.fn = "_route_deterministic"
  /\ ~fnOut.ran
  /\ FnReturns(RouteOutcome(fnIn.arg.intent_data, fnIn.arg.db))
  /\ UNCHANGED <<fnIn, twinVars, sessionVars, storeVars, turnVars, ghostVars, sqlIn, sqlOut,
                 toolVars, engineVars>>

\* the result dicts _compose_response is called with: those of
\* _route_deterministic, an inbox_count result with unread = 0, and dicts
\* with an intent tag that has no template
ComposeInputs ==
  [tag : {"result"},
   intent : VALID_INTENTS \cup {"make_coffee", ""},
   rows : {0, 2},
   unread_null : {FALSE}]
    \cup [tag : {"result"}, intent : {"inbox_count"}, rows : {0}, unread_null : {TRUE}]

RunComposeResponse ==
  /\ fnIn.fn = "_compose_response"
  /\ ~fnOut.ran
  /\ FnReturns(ComposeResponse(fnIn.arg))
  /\ UNCHANGED <<fnIn, twinVars, sessionVars, storeVars, turnVars, ghostVars, sqlIn, sqlOut,
                 toolVars, engineVars>>

\* the cat / word argument of _resolve_category
CategoryWords ==
  {<<"f","o","o","d">>, <<"F","O","O","D">>, <<"T","r","a","v","e","l">>,
   <<"o","t","h","e","r">>, <<"d","i","n","i","n","g">>, <<" ","D","i","n","i","n","g"," ">>,
   <<"C","O","M","M","U","T","E">>, <<"m","u","t","u","a","l"," ","f","u","n","d">>,
   <<"r","e","s","t","a","u","r","a","n","t","s">>, <<"r","e","n","t">>,
   <<"u","n","k","n","o","w","n","x","y","z">>, <<"P","e","t","s"," ">>,
   <<"d","i","n","i","n","g","s">>, <<"f","o","o">>, <<>>, <<" ">>}

RunResolveCategory ==
  /\ fnIn.fn = "agent._resolve_category"
  /\ ~fnOut.ran
  /\ FnReturns(ResolveCategory(fnIn.arg.word))
  /\ UNCHANGED <<fnIn, twinVars, sessionVars, storeVars, turnVars, ghostVars, sqlIn, sqlOut,
                 toolVars, engineVars>>

RunIntentsResolveCategory ==
  /\ fnIn.fn = "intents._resolve_category"
  /\ ~fnOut.ran
  /\ FnReturns(IntentsResolveCategory(fnIn.arg.word))
  /\ UNCHANGED <<fnIn, twinVars, sessionVars, storeVars, turnVars, ghostVars, sqlIn, sqlOut,
                 toolVars, engineVars>>

FunctionInputs ==
  {FnCall("_route_deterministic", a) : a \in RouteInputs}
    \cup {FnCall(f, [word |-> w]) :
            f \in {"agent._resolve_category", "intents._resolve_category"},
            w \in CategoryWords}
    \cup {FnCall("_compose_response", r) : r \in ComposeInputs}
    \cup {FnCall("_is_followup_message", [message |-> m]) : m \in FollowupMessages}
    \cup {FnCall("_validate_interpreter_output", p) : p \in ValidateInputs}

InitFunctions == InitProgram /\ sqlIn = <<>> /\ fnIn \in FunctionInputs

NextFunctions ==
  \/ RunIsFollowupMessage
  \/ RunValidateInterpreterOutput
  \/ RunRouteDeterministic
  \/ RunComposeResponse
  \/ RunResolveCategory
  \/ RunIntentsResolveCategory

SpecFunctions == InitFunctions /\ [][NextFunctions]_vars


\* ------------------------------------------------------------------------
\* Properties
\* ------------------------------------------------------------------------
WriteWhitelistClaimed == {"reminders", "spend_log", "notes"}

BlockedKeywordsClaimed ==
  {kwDROP, kwDELETE, kwINSERT, kwUPDATE, kwALTER, kwCREATE, kwTRUNCATE, kwUNION,
   kwPRAGMA, kwATTACH, kwDETACH, kwVACUUM, kwREINDEX, kwLOAD_EXTENSION}

\* the record the gate returned makes the turn eligible for the deterministic
\* path: confidence >= 0.75, needs_narrative false, intent not unknown
GateRecordEligible ==
  /\ intentData # None
  /\ intentData.confidence >= 75
  /\ intentData.needs_narrative = FALSE
  /\ intentData.intent # "unknown"

\* a turn of agent_chat in which every tool-supplying call was answered with
\* tool invocations and no backend call erred has ended
ToolHungryTurnEnded ==
  /\ pc = "done"
  /\ mode = "chat"
  /\ calls.with_tools >= 1
  /\ respLog.all_tools
  /\ ~respLog.any_error

\* C1: agent_chat, with a backend that answers every tool-supplying call with
\* tool invocations and never errs, issues exactly 3 tool-supplying calls,
\* then exactly one tool-free call, and returns iterations = 3 and a
\* non-empty text.
C1_LoopEndsWithText ==
  ToolHungryTurnEnded =>
    /\ calls.with_tools = 3
    /\ calls.tool_free = 1
    /\ result.iterations = 3
    /\ result.text # <<>>

\* such a turn ended after three rounds and one tool-free call, with an
\* empty text
C1_Witness ==
  /\ ToolHungryTurnEnded
  /\ calls.with_tools = 3
  /\ calls.tool_free = 1
  /\ result.iterations = 3
  /\ result.text = <<>>

\* C2: a turn is answered by the deterministic path only if the record the
\* gate returned has confidence >= 0.75, needs_narrative = false and a known
\* intent; in every other case control falls through to the agentic loop.
C2_DeterministicOnlyIfEligible ==
  [][pc = "route" =>
       /\ (result'.routed = "deterministic" => GateRecordEligible)
       /\ (~GateRecordEligible => pc' = "model" /\ result'.routed # "deterministic")]_vars

C2_Witness ==
  /\ pc = "done"
  /\ result.routed = "deterministic"
  /\ intentData # None
  /\ intentData.confidence = 75

\* C3: in a turn answered by the deterministic path no narrative model call
\* and no tool execution happens between the start of the turn and its
\* result, and the result reports tools_used = [] and iterations = 0.
C3_DeterministicWithoutModel ==
  pc = "done" /\ result.routed = "deterministic" =>
    /\ calls.with_tools = 0
    /\ calls.tool_free = 0
    /\ calls.streaming = 0
    /\ calls.tool_exec = 0
    /\ result.tools_used = <<>>
    /\ result.iterations = 0

C3_Witness ==
  /\ pc = "done"
  /\ result.routed = "deterministic"
  /\ mode = "stream"
  /\ store["notes"] > 0

\* C4: once the failure counter has reached 3, every later call of
\* _call_interpreter returns without issuing a model call, for any message,
\* and the counter never drops below 3 again.
C4_BypassAbsorbing ==
  [][failCount >= 3 =>
       /\ failCount' >= 3
       /\ calls'.interpreter <= calls.interpreter
       /\ (pc = "gate" => pc' = "route" /\ intentData' = None /\ ~interpLog'.issued)]_vars

C4_Witness ==
  /\ failCount = 3
  /\ pc = "route"
  /\ ~IsBlank(message)
  /\ ~IsFollowupMessage(message)
  /\ calls.interpreter = 0
  /\ lastDet # None

\* C5: every failed interpreter call increments the failure counter by one
\* and yields no classification, every validated one resets it to zero: the
\* counter equals the number of consecutive failed calls since the last
\* validated one.
C5_CounterCountsFailures ==
  /\ failCount = failStreak
  /\ (pc = "route" /\ interpLog.issued /\ interpLog.failed =>
        intentData = None /\ failCount >= 1)
  /\ (pc = "route" /\ interpLog.issued /\ ~interpLog.failed =>
        intentData # None /\ failCount = 0)

C5_Witness ==
  /\ pc = "route"
  /\ interpLog.issued
  /\ interpLog.failed
  /\ failCount = 2
  /\ lastDet # None

\* C6: for every message and every reachable session state, a stored last
\* deterministic intent with null or empty filters included,
\* _call_interpreter never raises an exception into agent_chat or
\* agent_chat_stream.
C6_InterpreterNeverRaises ==
  ~(pc = "raised" /\ result.error = "TypeError in _call_interpreter")

\* the statement was refused: an error, no rows, nothing executed, nothing written
SqlRefused ==
  /\ sqlOut.res.error # ""
  /\ sqlOut.res.rows = 0
  /\ sqlOut.res.executed = NoStmt
  /\ store = EmptyStore

\* C7: _execute_sql rejects, with an error and no rows and without executing
\* it, every statement whose trimmed upper-cased text does not begin with
\* SELECT or WITH, and every statement whose token set holds a blocked
\* keyword in any letter case.
C7_GuardRejects ==
  sqlOut.ran =>
    /\ (~StartsWith(StrUpper(StrStrip(sqlIn)), kwSELECT)
          /\ ~StartsWith(StrUpper(StrStrip(sqlIn)), kwWITH) => SqlRefused)
    /\ ((\E tok \in Tokenise(sqlIn) : StrUpper(tok) \in BlockedKeywordsClaimed)
          => SqlRefused)

C7_Witness ==
  /\ sqlOut.ran
  /\ StartsWith(sqlIn, kwSELECT)
  /\ StrLower(kwPRAGMA) \in Tokenise(sqlIn)
  /\ sqlOut.res.error = "Query contains forbidden keyword(s)"
  /\ sqlOut.res.blocked = {kwPRAGMA}

\* a query on the settings table: SELECT * FROM settings, FROM main.settings
\* or FROM "settings", in any letter case and with any spacing or comments
RefersToSettings(s) ==
  \E ref \in TableRefs(kwSETTINGS) : SqlLex(s).complete /\ SqlLex(s).items = SelectStarFrom \o ref

\* C8: every query that references the settings table is rejected by
\* _execute_sql and never executed, in any letter case and however the table
\* name is written (bare, schema-qualified, quoted).
C8_SettingsNeverRead ==
  sqlOut.ran /\ RefersToSettings(sqlIn) => SqlRefused

\* C9: every statement _execute_sql lets through to execution is free of the
\* blocked keywords, whatever characters delimit the keyword in the text.
C9_ExecutedFreeOfBlocked ==
  sqlOut.ran /\ sqlOut.res.executed # NoStmt /\ sqlOut.res.error = "" =>
    \A i \in 1..Len(SqlWords(sqlOut.res.executed)) :
      SqlWords(sqlOut.res.executed)[i] \notin BlockedKeywordsClaimed

\* C10: every mutation reachable through the tool executor targets a table of
\* the write whitelist {reminders, spend_log, notes}; a write aimed at any
\* other table is rejected with an error payload and changes nothing.
C10_WritesWhitelisted ==
  /\ \A t \in Tables \ WriteWhitelistClaimed : store[t] = 0
  /\ (toolOut.ran /\ toolOut.via = "_execute_write"
        /\ toolIn.name \notin WriteWhitelistClaimed \cup {"complete_reminder"}
      => toolOut.error # "" /\ toolOut.wrote = NoTable)

\* C11: execute_tool never raises: for every tool name, known or unknown, and
\* every arguments value, a handler that throws or times out included, it
\* returns a JSON string; an unknown tool name, a handler exception and a
\* timeout each yield an object with an error field.
C11_ExecuteToolNeverRaises ==
  toolOut.ran /\ toolOut.via = "execute_tool" =>
    /\ ~toolOut.raised
    /\ (toolIn.name \notin ToolNames => toolOut.error # "")
    /\ (toolIn.name \in ToolNames /\ toolIn.arg \in {"bad_type", "not_dict"}
          => toolOut.error # "")
    /\ (toolOut.timedOut => toolOut.error # "")

C11_Witness ==
  /\ toolOut.ran
  /\ toolOut.via = "execute_tool"
  /\ toolIn.name = "add_expense"
  /\ toolIn.arg = "bad_type"
  /\ ~toolOut.timedOut
  /\ toolOut.error = "exception in handler"
  /\ ~toolOut.raised

\* C12: when a tool invocation exceeds the timeout, execute_tool returns a
\* timeout error naming the tool and the outstanding work is cancelled: once
\* the timeout error has been returned, that invocation performs no further
\* effect on the store. (An abandoned invocation leaves the pool in the step
\* that shortens `hung`.)
C12_TimedOutToolStaysCancelled ==
  [][/\ (Len(hung') < Len(hung) => store' = store)
     /\ (Len(hung') > Len(hung) => store' = store)]_vars

\* a write tool has timed out in the loop and its handler is still running
C12_Witness ==
  /\ hung = <<"notes">>
  /\ store = EmptyStore
  /\ calls.tool_exec = 1
  /\ toolsUsed # <<>>

\* C13: whenever a model-backend call of the agentic loop fails, the turn
\* ends at that point and its result carries the failure in an error field:
\* for the tool-round calls, for the final tool-free call of agent_chat and
\* for the streaming call of agent_chat_stream.
C13_ModelFailureSurfaced ==
  /\ (pc = "done" /\ respLog.any_error => result.error # "")
  /\ (respLog.any_error => pc \notin {"model", "tools", "final"})

\* a turn has ended in a round whose backend call failed
C13_Witness ==
  /\ pc = "done"
  /\ respLog.any_error
  /\ calls.with_tools = 2
  /\ calls.tool_free = 0
  /\ calls.streaming = 0
  /\ result.error = "model error"

\* C14: the agentic loop never terminates without some textual answer: on
\* every termination of agent_chat in which no model call failed (a tool-free
\* response in any round, or the round budget used up) the text is non-empty.
C14_AlwaysSomeText ==
  pc = "done" /\ mode = "chat" /\ result.routed # "deterministic"
    /\ calls.with_tools >= 1 /\ ~respLog.any_error
    => result.text # <<>>

\* agent_chat has ended on a tool-free response of its second round, after a
\* tool execution, with an empty text
C14_Witness ==
  /\ pc = "done"
  /\ mode = "chat"
  /\ ~respLog.any_error
  /\ calls.with_tools = 2
  /\ calls.tool_exec = 1
  /\ calls.tool_free = 0
  /\ result.text = <<>>

\* the invocations the tool turns of a transcript answer, in order
ToolTurnsAnswered(ts) ==
  LET tools == SelectSeq(ts, LAMBDA x : x.role = "tool")
  IN [i \in 1..Len(tools) |-> tools[i].of]

\* the invocations the assistant turns of a transcript ask for, in order
RECURSIVE InvocationsAsked(_)
InvocationsAsked(ts) ==
  IF ts = <<>> THEN <<>>
  ELSE (IF Head(ts).role = "assistant" THEN Head(ts).tool_calls ELSE <<>>)
         \o InvocationsAsked(Tail(ts))

\* a model call is about to be issued, or the turn is over
BetweenRounds == pc \in {"model", "final", "yield", "done"}

RECURSIVE IsSubsequence(_, _)
IsSubsequence(a, b) ==
  IF a = <<>> THEN TRUE
  ELSE IF b = <<>> THEN FALSE
  ELSE IF Head(a).role = Head(b).role
          /\ Head(a).content \in {Head(b).content, TruncatedText}
    THEN IsSubsequence(Tail(a), Tail(b))
  ELSE IsSubsequence(a, Tail(b))

\* rounds: an assistant turn, then one tool turn per invocation it asks for
\* (`whole`: of the last round too)
RECURSIVE IsRounds(_, _)
IsRounds(ts, whole) ==
  IF ts = <<>> THEN TRUE
  ELSE LET n == Len(Head(ts).tool_calls)
       IN /\ Head(ts).role = "assistant"
          /\ IF Len(ts) - 1 < n
               THEN ~whole /\ \A i \in 2..Len(ts) : ts[i].role = "tool"
               ELSE /\ \A i \in 2..(n + 1) : ts[i].role = "tool"
                    /\ IsRounds(SubSeq(ts, n + 2, Len(ts)), whole)

\* the transcript ts is a system turn, history turns, the user turn at
\* position u, then rounds
TranscriptShape(ts, u, whole) ==
  /\ ts[1].role = "system"
  /\ \A i \in 2..Len(ts) : ts[i].role # "system"
  /\ ts[u].role = "user"
  /\ SubSeq(ts[u].content, 3, Len(ts[u].content)) = message
  /\ u - 2 <= 6
  /\ \A i \in 2..(u - 1) : ts[i].role \in {"user", "assistant"} /\ ts[i].content # <<>>
                             /\ ts[i].tool_calls = <<>>
  /\ IsSubsequence(SubSeq(ts, 2, u - 1), history)
  /\ IsRounds(SubSeq(ts, u + 1, Len(ts)), whole)

WellFormedTranscript(ts, whole) ==
  ts # <<>> => \E u \in 2..Len(ts) : TranscriptShape(ts, u, whole)

\* C16: at every model call of a turn the transcript is one system turn, the
\* selected history turns, the current user turn, then for each completed
\* round one assistant turn followed by that round's tool turns; during the
\* turn the transcript only grows by appending.
C16_TranscriptOrdered ==
  [][/\ WellFormedTranscript(transcript', pc' \in {"model", "final"})
     /\ (pc' = "gate" \/ SubSeq(transcript', 1, Len(transcript)) = transcript)]_vars

\* the final call is about to be issued on a transcript with history turns
\* and three rounds
C16_Witness ==
  /\ pc = "final"
  /\ Len(history) = 7
  /\ ~slimContext
  /\ Len(transcript) = 12
  /\ transcript[6].role = "user"
  /\ transcript[7].role = "assistant"

\* C17: nothing is retried: a turn of agent_chat issues at most one
\* interpreter call, at most 3 tool-supplying model calls and at most one
\* tool-free call; a turn of agent_chat_stream at most one interpreter call,
\* at most 2 tool-supplying calls and at most one streaming call; a failed
\* model call or tool call is never issued again by the system.
C17_NothingRetried ==
  /\ calls.interpreter <= 1
  /\ mode = "chat" =>
       calls.with_tools <= 3 /\ calls.tool_free <= 1 /\ calls.streaming = 0
  /\ mode = "stream" =>
       calls.with_tools <= 2 /\ calls.streaming <= 1 /\ calls.tool_free = 0
  /\ respLog.any_error => pc \in {"yield", "done"}
  /\ calls.tool_exec + Len(pending) = Len(InvocationsAsked(transcript))
  /\ calls.with_tools + calls.tool_free + calls.streaming
       <= Len(SelectSeq(transcript, LAMBDA x : x.role = "assistant"))
            + (IF pc \in {"yield", "done"} THEN 1 ELSE 0)

\* agent_chat_stream has used its two rounds, one tool call has failed, and
\* the streaming call has been issued
C17_Witness ==
  /\ mode = "stream"
  /\ pc = "yield"
  /\ calls.interpreter = 1
  /\ calls.with_tools = 2
  /\ calls.streaming = 1
  /\ calls.tool_exec = 2
  /\ \E i \in 1..Len(transcript) :
       transcript[i].role = "tool" /\ transcript[i].content = <<"sqlite error">>

\* a text chunk has been yielded in this run
TextYielded(ys) == \E i \in 1..Len(ys) : ys[i].kind = "chunk"

\* C18: in agent_chat_stream no text chunk is yielded before the last tool
\* execution of the turn has returned, and once the first text chunk has
\* been yielded no tool is executed and no tool-supplying model call is
\* issued in that turn.
C18_StreamPhasesSequential ==
  [][/\ (TextYielded(yielded') /\ ~TextYielded(yielded) => pc = "yield" /\ pending = <<>>)
     /\ (TextYielded(yielded) /\ pc' # "gate"
           => /\ calls'.tool_exec = calls.tool_exec
              /\ calls'.with_tools = calls.with_tools
              /\ pc' \in {"yield", "done"})]_vars

\* the second delta of the streaming call is yielded after two tool rounds
C18_Witness ==
  /\ mode = "stream"
  /\ pc = "yield"
  /\ calls.tool_exec = 2
  /\ calls.streaming = 1
  /\ Len(yielded) = 2
  /\ TextYielded(yielded)

\* the texts of the chunks among the items, concatenated in order
RECURSIVE ChunkTextJoined(_)
ChunkTextJoined(ys) ==
  IF ys = <<>> THEN <<>>
  ELSE (IF Head(ys).kind = "chunk" THEN Head(ys).text ELSE <<>>)
         \o ChunkTextJoined(Tail(ys))

ResultsYielded(ys) == Len(SelectSeq(ys, LAMBDA y : y.kind = "result"))

\* a run of agent_chat_stream that returned has yielded one result dict,
\* last, whose text is the chunks before it joined
ReturnedRunsWellFormed ==
  /\ mode = "stream" /\ pc = "yield" => ResultsYielded(yielded) = 0
  /\ mode = "stream" /\ pc = "done" =>
       /\ ResultsYielded(yielded) = 1
       /\ yielded[Len(yielded)].kind = "result"
       /\ yielded[Len(yielded)].res = result
       /\ result.text = ChunkTextJoined(yielded)
  /\ mode = "chat" => yielded = <<>>

\* C19: every run of agent_chat_stream that has ended, by returning or by
\* an exception, has yielded exactly one result dict, as its last item, and
\* the text of the dict is the concatenation, in order, of all string
\* chunks yielded before it (on the deterministic path, the tool-free
\* path, the streaming path, and when the stream breaks off with an error).
C19_OneResultLastWithAllText ==
  /\ ReturnedRunsWellFormed
  /\ mode = "stream" /\ pc = "raised" => ResultsYielded(yielded) = 1

\* a run of agent_chat_stream has ended in the gate with an exception
C19_Witness ==
  /\ mode = "stream"
  /\ pc = "raised"
  /\ yielded = <<>>
  /\ result.error = "TypeError in _call_interpreter"

TerminalEnvelopes(out) == SelectSeq(out, LAMBDA l : l.kind = "envelope")

\* C20: the request-processing loop of engine.main never crashes: for every
\* non-empty input line (invalid JSON, JSON that is not an object, an object
\* with missing fields, a handler that raises) it has written exactly one
\* terminal envelope, in which exactly one of result and error is non-null,
\* and it goes on to read the next line.
C20_LoopNeverCrashes ==
  /\ enginePc # "crashed"
  /\ enginePc \notin {"start", "streaming"}
       => Len(TerminalEnvelopes(stdout)) = 1 + linesHandled
  /\ \A i \in 1..Len(stdout) :
       stdout[i].kind = "envelope" => (stdout[i].result = Null) # (stdout[i].error = Null)

\* the loop has answered a request and ended on the next line, which got
\* no envelope
C20_Witness ==
  /\ enginePc = "crashed"
  /\ linesHandled = 2
  /\ Len(TerminalEnvelopes(stdout)) = 2
  /\ stdout[2] = Envelope(7, "value", Null)

\* the line the loop has just taken is a request object of unknown type
UnknownTypeTaken(line) ==
  /\ line.text = "json"
  /\ line.req.json = "object"
  /\ line.req.type \notin KnownRequestTypes \cup {"agent_stream"}

\* C21: a request whose type is not one of the known request types is never
\* silently ignored: the iteration that takes it writes one envelope with
\* the request's id, result = null and the error of handle_request's
\* 'Unknown request type', and the loop goes on reading.
C21_UnknownTypeAnswered ==
  [][linesHandled' = linesHandled + 1 /\ UnknownTypeTaken(curLine')
       => /\ stdout' = Append(stdout, Envelope(ReqId(curLine'.req), Null, "ValueError"))
          /\ enginePc' = "reading"]_vars

\* a request {"id": 7, "type": "nope"} has been answered
C21_Witness ==
  /\ enginePc = "reading"
  /\ linesHandled = 1
  /\ curLine.req.type = "nope"
  /\ curLine.req.id = "present"
  /\ stdout = <<ReadyMsg, Envelope(7, Null, "ValueError")>>

\* C22: requests are processed one at a time to completion: while an
\* agent_stream request is being answered no other line is taken, every
\* line written carries the id of that request, chunk lines come first and
\* the terminal envelope ends the request; outside a stream an iteration
\* writes at most one line, a terminal envelope; lines once written stay.
C22_OneRequestAtATime ==
  [][/\ Len(stdout') >= Len(stdout)
     /\ SubSeq(stdout', 1, Len(stdout)) = stdout
     /\ enginePc = "streaming" =>
          /\ curLine' = curLine
          /\ linesHandled' = linesHandled
          /\ Len(stdout') = Len(stdout) + 1
          /\ stdout'[Len(stdout')].id = ReqId(curLine.req)
          /\ (stdout'[Len(stdout')].kind = "envelope") <=> (enginePc' = "reading")
          /\ (stdout'[Len(stdout')].kind = "chunk") <=> (enginePc' = "streaming")
     /\ enginePc # "streaming" /\ stdout' # stdout =>
          /\ Len(stdout') = Len(stdout) + 1
          /\ stdout'[Len(stdout')].kind = "envelope"]_vars

\* two agent_stream requests answered one after the other, the first with
\* a chunk and an error, the second with a chunk and a result
C22_Witness ==
  /\ enginePc = "reading"
  /\ curLine.req.type = "agent_stream"
  /\ stdout = <<ReadyMsg, ChunkLine(NoId), Envelope(NoId, Null, "Exception"),
                ChunkLine(7), Envelope(7, "value", Null)>>

\* the record the follow-up branch is said to return: the stored one with
\* its confidence replaced and, when a keyword is found, its period
ClaimedReuse(stored, msg) ==
  LET period == FollowupPeriod(msg)
  IN [stored EXCEPT !.confidence = FOLLOWUP_CONF,
                    !.filters.period = IF period = "none" THEN @ ELSE period]

\* the guards of _call_interpreter lead into the follow-up branch
FollowupCase ==
  /\ pc = "gate"
  /\ ~InterpreterBypassed(failCount)
  /\ ~IsBlank(message)
  /\ IsFollowupMessage(message)
  /\ lastDet # None

\* C23: follow-up reuse: when the gate is not bypassed, the message is
\* non-blank and a follow-up, and a last deterministic intent is stored,
\* _call_interpreter issues no model call and returns the stored intent
\* with confidence 0.85 and, if the message contains a relative-time
\* keyword, with filters.period overwritten by the period of the first
\* matching keyword; all other fields are those of the stored intent.
C23_FollowupReuse ==
  [][FollowupCase /\ pc' # "gate"
       => /\ pc' = "route"
          /\ ~interpLog'.issued
          /\ calls'.interpreter = calls.interpreter
          /\ intentData' = ClaimedReuse(lastDet, message)]_vars

\* the follow-up "Last Month" met a stored intent whose filters is null
C23_Witness ==
  /\ pc = "raised"
  /\ message = <<"L","a","s","t"," ","M","o","n","t","h">>
  /\ lastDet # None
  /\ lastDet.filters.kind = "null"
  /\ calls.interpreter = 0

\* the follow-up branch returns what the claim says whenever the stored
\* filters value is an object
FollowupReuseOnObjects ==
  [][FollowupCase /\ pc' # "gate" /\ lastDet.filters.kind = "dict"
       => /\ pc' = "route"
          /\ ~interpLog'.issued
          /\ calls'.interpreter = calls.interpreter
          /\ intentData' = ClaimedReuse(lastDet, message)]_vars

\* a listed pronoun or continuation word among the first two words
PronounInFirstTwo(words) ==
  \E i \in 1..Min(2, Len(words)) : words[i] \in FOLLOWUP_PRONOUNS

FollowupCalled == fnIn.fn = "_is_followup_message" /\ fnOut.ran

\* C24 as stated: every message of at most 2 tokens is a follow-up; every
\* message with a listed pronoun/continuation word within its first two
\* tokens is a follow-up, whatever its length; a longer message without
\* one is not a follow-up.
C24_FollowupAsStated ==
  FollowupCalled =>
    LET words == FollowupWords(fnIn.arg.message)
    IN /\ Len(words) <= 2 => fnOut.val
       /\ PronounInFirstTwo(words) => fnOut.val
       /\ Len(words) > 2 /\ ~PronounInFirstTwo(words) => ~fnOut.val

\* C24: _is_followup_message: every message of at most 2 tokens is a
\* follow-up, with or without a listed pronoun; every message of 3 or more
\* tokens is not a follow-up, also when a listed pronoun/continuation word
\* stands within its first two tokens.
C24_FollowupByLength ==
  FollowupCalled =>
    LET words == FollowupWords(fnIn.arg.message)
    IN /\ Len(words) <= 2 => fnOut.val
       /\ Len(words) > 2 => ~fnOut.val

\* "it last food": three tokens, a pronoun first, not a follow-up
C24_Witness ==
  /\ FollowupCalled
  /\ fnIn.arg.message = <<"i","t"," ","l","a","s","t"," ","f","o","o","d">>
  /\ ~fnOut.val

ValidateAccepted ==
  /\ fnIn.fn = "_validate_interpreter_output"
  /\ fnOut.ran
  /\ fnOut.val # None

\* the confidence of the input is a JSON number
ConfidenceIsNumber == fnIn.arg.conf_kind = "number"

\* C25: for every input record that passes validation the confidence of
\* the returned record lies in [0,1]: a numeric input above 1 becomes 1,
\* below 0 becomes 0, a value inside the range is kept, and a non-numeric
\* input (a string, a boolean, null, NaN) becomes 0.
C25_ConfidenceClamped ==
  ValidateAccepted =>
    LET c == fnOut.val.confidence
        v == fnIn.arg.conf_value
    IN /\ 0 <= c /\ c <= 100
       /\ ConfidenceIsNumber /\ v > 100 => c = 100
       /\ ConfidenceIsNumber /\ v < 0 => c = 0
       /\ ConfidenceIsNumber /\ 0 <= v /\ v <= 100 => c = v
       /\ ~ConfidenceIsNumber => c = 0

\* the confidence NaN has been validated to 1
C25_Witness ==
  /\ ValidateAccepted
  /\ fnIn.arg.conf_kind = "nan"
  /\ fnIn.arg.intent = "spend_total"
  /\ fnOut.val.confidence = 100

\* the part of C25 on JSON numbers and on values float() refuses
ConfidenceOfNumbersClamped ==
  ValidateAccepted =>
    LET c == fnOut.val.confidence
        v == fnIn.arg.conf_value
    IN /\ 0 <= c /\ c <= 100
       /\ ConfidenceIsNumber /\ v > 100 => c = 100
       /\ ConfidenceIsNumber /\ v < 0 => c = 0
       /\ ConfidenceIsNumber /\ 0 <= v /\ v <= 100 => c = v
       /\ fnIn.arg.conf_kind \in {"text", "null"} => c = 0

ValidateCalled == fnIn.fn = "_validate_interpreter_output" /\ fnOut.ran

\* C27: _validate_interpreter_output returns no record for an input that
\* is not an object or lacks 'intent' or 'confidence'; for an accepted
\* input missing optional fields become domain = 'unknown', action =
\* 'unknown', filters = {} and needs_narrative = true, needs_narrative is a
\* boolean, and a record that does not state needs_narrative is not
\* eligible for the deterministic path.
C27_RequiredAndDefaults ==
  ValidateCalled =>
    LET in == fnIn.arg
        out == fnOut.val
    IN /\ (out = None) <=> (~in.is_dict \/ ~in.has_intent \/ ~in.has_confidence)
       /\ out # None =>
            /\ in.domain = "absent" => out.domain = "unknown"
            /\ in.action = "absent" => out.action = "unknown"
            /\ in.domain # "absent" => out.domain = in.domain
            /\ in.action # "absent" => out.action = in.action
            /\ ~in.filters_present => out.filters = EmptyFilters
            /\ out.needs_narrative \in BOOLEAN
            /\ in.needs_narrative = "absent" => out.needs_narrative
            /\ in.needs_narrative = "absent" => ~DeterministicEligible(out)

\* a confident spend_total record without needs_narrative and without the
\* optional fields has been validated
C27_Witness ==
  /\ ValidateAccepted
  /\ fnIn.arg.needs_narrative = "absent"
  /\ fnIn.arg.domain = "absent"
  /\ ~fnIn.arg.filters_present
  /\ fnIn.arg.intent = "spend_total"
  /\ fnOut.val.confidence = 100
  /\ fnOut.val.needs_narrative

ComposeCalled == fnIn.fn = "_compose_response" /\ fnOut.ran

\* C28: _compose_response returns a non-empty 'no data' sentence for every
\* supported intent whose result holds zero rows or a zero total (the nine
\* templated intents), and exactly the empty string for every intent tag
\* that has no template.
C28_NoDataSentence ==
  ComposeCalled =>
    /\ Cardinality(TemplatedIntents) = 9
    /\ fnIn.arg.intent \in TemplatedIntents /\ fnIn.arg.rows = 0
         => ~fnOut.val.raised /\ fnOut.val.text = NoDataText /\ NoDataText # <<>>
    /\ fnIn.arg.intent \notin TemplatedIntents
         => ~fnOut.val.raised /\ fnOut.val.text = <<>>

\* the inbox_count result of an empty email_cache has been composed
C28_Witness ==
  /\ ComposeCalled
  /\ fnIn.arg.intent = "inbox_count"
  /\ fnIn.arg.rows = 0
  /\ fnIn.arg.unread_null
  /\ fnOut.val.raised

\* C28 for results whose counts are all numbers
NoDataSentenceOnNumbers ==
  ComposeCalled /\ ~fnIn.arg.unread_null =>
    /\ fnIn.arg.intent \in TemplatedIntents /\ fnIn.arg.rows = 0
         => ~fnOut.val.raised /\ fnOut.val.text = NoDataText /\ NoDataText # <<>>
    /\ fnIn.arg.intent \notin TemplatedIntents
         => ~fnOut.val.raised /\ fnOut.val.text = <<>>

RouteCalled == fnIn.fn = "_route_deterministic" /\ fnOut.ran

\* a filters value the template of the intent cannot convert
MalformedFilters(intent, filters) ==
  /\ filters.kind \notin {"null", "falsy"}
  /\ \/ /\ intent \in {"spend_total", "category_breakdown"}
        /\ filters.kind = "truthy_nondict" \/ filters.period = "nonstring"
     \/ /\ intent \in {"urgent_emails", "events_upcoming"}
        /\ filters.kind = "truthy_nondict" \/ filters.limit = "bad"

\* C29: _route_deterministic never raises: for an intent without a
\* template (free_slots, multi, unknown or any other string) it returns
\* None, and for a templated intent whose query fails or whose filter value
\* is malformed it returns None as well; otherwise it returns the result
\* of the intent.
C29_RouteNeverRaises ==
  RouteCalled =>
    LET intent == fnIn.arg.intent_data.intent
        failed == fnIn.arg.db.fails
                    \/ MalformedFilters(intent, fnIn.arg.intent_data.filters)
    IN /\ ~fnOut.val.raised
       /\ intent \notin TemplatedIntents => fnOut.val.ret = None
       /\ intent \in TemplatedIntents /\ failed => fnOut.val.ret = None
       /\ intent \in TemplatedIntents /\ ~failed
            => fnOut.val.ret # None /\ fnOut.val.ret.intent = intent

\* events_upcoming with a days value int() refuses has returned None
C29_Witness ==
  /\ RouteCalled
  /\ fnIn.arg.intent_data.intent = "events_upcoming"
  /\ fnIn.arg.intent_data.filters.limit = "bad"
  /\ ~fnIn.arg.db.fails
  /\ ~fnOut.val.raised
  /\ fnOut.val.ret = None

\* C30: _execute_sql never returns more than 50 rows: when the query
\* yields n > 50 rows the result holds the first 50 rows, total = n and
\* truncated = true; when n <= 50 it holds all n rows, total = n and no
\* truncated flag.
C30_RowCap ==
  sqlOut.ran =>
    LET n == sqlOut.yields
        res == sqlOut.res
    IN /\ ROW_CAP = 50
       /\ res.rows <= ROW_CAP
       /\ res.error = "" /\ n > ROW_CAP
            => res.rows = ROW_CAP /\ res.has_total /\ res.total = n /\ res.truncated
       /\ res.error = "" /\ n <= ROW_CAP
            => res.rows = n /\ res.has_total /\ res.total = n /\ ~res.truncated

\* a query that yields 51 rows has returned 50 of them
C30_Witness ==
  /\ sqlOut.ran
  /\ sqlOut.res.error = ""
  /\ sqlOut.yields = ROW_CAP + 1
  /\ sqlOut.res.rows = ROW_CAP
  /\ sqlOut.res.total = ROW_CAP + 1
  /\ sqlOut.res.truncated


\* ------------------------------------------------------------------------
\* C31: category resolution
\* ------------------------------------------------------------------------
ResolveCalled ==
  /\ fnIn.fn \in {"agent._resolve_category", "intents._resolve_category"}
  /\ fnOut.ran

\* the synonym table of the function that was called
SynonymsOfCall ==
  IF fnIn.fn = "agent._resolve_category" THEN CATEGORY_SYNONYMS
  ELSE INTENTS_CATEGORY_SYNONYMS

\* the argument lower-cased and stripped: the key of the lookup
LookupKey == StrStrip(StrLower(fnIn.arg.word))

IsSynonym == \E p \in SynonymsOfCall : p[1] = LookupKey

\* a synonym, in any case, resolves to a canonical category, and a canonical
\* category, in any case, to itself
C31_KnownWordsResolved ==
  ResolveCalled =>
    /\ IsSynonym =>
          /\ ~fnOut.val.none
          /\ <<LookupKey, fnOut.val.str>> \in SynonymsOfCall
          /\ fnOut.val.str \in CANONICAL_CATEGORIES
    /\ LookupKey \in CANONICAL_CATEGORIES => fnOut.val = Str(LookupKey)

Compared == twin.phase = "stream" /\ pc \in {"done", "raised"}

\* the turn was answered: deterministically, by a model error or by a
\* tool-free answer
AnsweredInSharedRounds == twin.chat.pc = "done" \/ pc = "done"

\* C32: on the same session state, store, message and answers, when the
\* turn is answered deterministically, by a model error or by a tool-free
\* answer within the first MAX_ITERATIONS - 1 rounds, the result dict
\* agent_chat_stream yields last equals the dict agent_chat returns, and
\* both leave the same session state
C32_StreamRefinesChat ==
  (Compared /\ AnsweredInSharedRounds) =>
    /\ pc = twin.chat.pc
    /\ result = twin.chat.result
    /\ yielded # <<>>
    /\ yielded[Len(yielded)] = ResultItem(twin.chat.result)
    /\ failCount = twin.chat.failCount
    /\ misfireCount = twin.chat.misfireCount
    /\ lastDet = twin.chat.lastDet

\* both calls ran a tool round and then got a tool-free answer with a text
C32_Witness ==
  /\ Compared
  /\ pc = "done"
  /\ result.iterations = MAX_ITERATIONS - 1
  /\ result.tools_used # <<>>
  /\ result.text # <<>>
  /\ result.error = ""

\* both calls were answered by the deterministic path and stored the intent
C32_WitnessDeterministic ==
  /\ Compared
  /\ pc = "done"
  /\ result.routed = "deterministic"
  /\ twin.before.lastDet = None
  /\ lastDet # None

\* ------------------------------------------------------------------------
\* C33: hung tools and later tools
\* ------------------------------------------------------------------------
FastToolReturned == toolOut.ran /\ toolOut.via = "execute_tool" /\ ~toolOut.slow

\* C33: whatever invocations have hung and timed out before, a later
\* invocation of a fast tool is started by the pool and returns its own
\* result, not a timeout error
C33_HungCannotStall ==
  FastToolReturned => ~toolOut.timedOut /\ toolOut.timeout_of = ""

\* a fast tool returned its own result while three handlers were hanging
C33_Witness ==
  /\ FastToolReturned
  /\ toolOut.busy = MAX_WORKERS - 1
  /\ Len(hung) = MAX_WORKERS - 1
  /\ ~toolOut.timedOut
  /\ toolOut.error = ""

\* what holds: a fast tool gets its own result whenever fewer than
\* MAX_WORKERS handlers are hanging
FastToolServedWhileWorkerIdle ==
  (FastToolReturned /\ toolOut.busy < MAX_WORKERS) => ~toolOut.timedOut

\* ------------------------------------------------------------------------
\* C34: the stored last deterministic intent over a turn
\* ------------------------------------------------------------------------
\* a turn has ended; twin.before is the session state it began in
TurnEnded == twin.phase \in {"chat", "stream"} /\ pc \in {"done", "raised"}

\* C34: the stored last deterministic intent changes only in a turn that
\* is answered by the deterministic path, where it becomes the intent
\* record of the turn; every other turn (follow-up reuse that overrides the
\* period, misfire, fall-through, model error) leaves it as it was
C34_StoredIntentFrame ==
  TurnEnded =>
    IF pc = "done" /\ result.routed = "deterministic"
      THEN lastDet = intentData
      ELSE lastDet = twin.before.lastDet

\* a follow-up with a period keyword reused the stored record, the route
\* misfired and the turn was answered by the model
C34_Witness ==
  /\ TurnEnded
  /\ pc = "done"
  /\ result.routed # "deterministic"
  /\ twin.before.lastDet # None
  /\ FollowupPeriod(message) # "none"
  /\ intentData # None
  /\ intentData.confidence = FOLLOWUP_CONF
  /\ lastDet.filters.period = FollowupPeriod(message)
  /\ lastDet # twin.before.lastDet

\* what holds: the stored record is the turn's record after a deterministic
\* answer, and otherwise differs from the one before the turn in nothing
\* but filters.period, and in that only after a follow-up with a keyword
StoredIntentFrameButPeriod ==
  TurnEnded =>
    IF pc = "done" /\ result.routed = "deterministic"
      THEN lastDet = intentData
    ELSE IF lastDet = twin.before.lastDet THEN TRUE
    ELSE /\ twin.before.lastDet # None
         /\ IsFollowupMessage(message)
         /\ FollowupPeriod(message) # "none"
         /\ lastDet = [twin.before.lastDet EXCEPT !.filters.period = FollowupPeriod(message)]

\* ------------------------------------------------------------------------
\* C35: the history window
\* ------------------------------------------------------------------------
\* the agentic loop is entered: the transcript is the one of the first call
LoopEntered == pc = "model" /\ iterations = 0

\* the turns of the transcript between the system turn and the user turn
Copied == SubSeq(transcript, 2, Len(transcript) - 1)

\* positions of the last n history turns that have the role user or
\* assistant and a content
CopiedFrom(n) ==
  {i \in 1..Len(history) :
     /\ i > Len(history) - n
     /\ history[i].role \in {"user", "assistant"}
     /\ history[i].content # <<>>}

\* the k-th position of a set of positions
Position(idx, k) == CHOOSE i \in idx : Cardinality({j \in idx : j <= i}) = k

\* `copy` is `original` cut to at most 500 characters
CutCopy(copy, original) ==
  /\ Len(copy) <= HISTORY_CHARS
  /\ Len(original) <= HISTORY_CHARS => copy = original
  /\ Len(original) > HISTORY_CHARS =>
        SubSeq(copy, 1, HISTORY_CUT) = SubSeq(original, 1, HISTORY_CUT)

WindowIs(n) ==
  /\ Len(Copied) = Cardinality(CopiedFrom(n))
  /\ \A k \in 1..Len(Copied) :
       /\ Copied[k].role = history[Position(CopiedFrom(n), k)].role
       /\ CutCopy(Copied[k].content, history[Position(CopiedFrom(n), k)].content)

\* C35: the history window of the agentic loop is the last 2 history turns
\* when the gate produced a record for the turn and the last 6 when it
\* produced none; only user and assistant turns with a content are copied,
\* each cut to at most 500 characters
C35_HistoryWindow ==
  LoopEntered =>
    /\ transcript[1].role = "system"
    /\ transcript[Len(transcript)].role = "user"
    /\ WindowIs(IF intentData # None THEN 2 ELSE 6)

\* a record with a low confidence: of the three history turns the last two
\* are in the window, the system turn is left out and the long text is cut
C35_Witness ==
  /\ LoopEntered
  /\ intentData # None
  /\ intentData.confidence < CONF_CUTOFF
  /\ Len(history) = 3
  /\ history[2].role = "system"
  /\ Len(history[3].content) > HISTORY_CHARS
  /\ Len(Copied) = 1
  /\ Len(Copied[1].content) = HISTORY_CHARS

\* no record (bypass): six of seven history turns are in the window
C35_WitnessFull ==
  /\ LoopEntered
  /\ intentData = None
  /\ InterpreterBypassed(failCount)
  /\ Len(history) = 7
  /\ Len(Copied) = 4

\* ------------------------------------------------------------------------
\* C36: the stored last deterministic intent is always eligible
\* ------------------------------------------------------------------------
\* _call_interpreter has returned a record without a model call: the
\* record of a follow-up reuse
ReuseReturned == pc = "route" /\ ~interpLog.issued /\ intentData # None

\* C36: in every reachable session state a stored last deterministic
\* intent has needs_narrative = false and an intent that is whitelisted,
\* not "unknown" and templated; a record produced by follow-up reuse has
\* the confidence 0.85 and passes the deterministic eligibility test
C36_StoredIntentEligible ==
  /\ lastDet # None =>
        /\ lastDet.needs_narrative = FALSE
        /\ lastDet.intent \in VALID_INTENTS \ {"unknown"}
        /\ lastDet.intent \in TemplatedIntents
  /\ ReuseReturned =>
        /\ intentData.confidence = FOLLOWUP_CONF
        /\ intentData.confidence >= CONF_CUTOFF
        /\ ~intentData.needs_narrative
        /\ intentData.intent # "unknown"

\* a follow-up with a period keyword has been answered from the stored
\* record, and the reused record is stored in its turn
C36_Witness ==
  /\ pc = "done"
  /\ ~interpLog.issued
  /\ result.routed = "deterministic"
  /\ intentData # None
  /\ intentData.confidence = FOLLOWUP_CONF
  /\ lastDet = intentData
  /\ lastDet.filters.period = "last_month"

\* ------------------------------------------------------------------------
\* C37: after the bypass
\* ------------------------------------------------------------------------
ThresholdReached == failCount >= INTERPRETER_FAIL_THRESHOLD

\* what a step does once the failure counter has reached the threshold
BypassedStep ==
  ThresholdReached =>
    /\ failCount' = failCount
    /\ lastDet' = lastDet
    /\ result'.routed # "deterministic"
    /\ (pc = "gate" =>
          /\ pc' = "route"
          /\ intentData' = None
          /\ calls'.interpreter = calls.interpreter)
    /\ (pc = "route" => pc' = "model" /\ ~slimContext')

\* C37: once the failure counter has reached the threshold no later turn
\* is answered by the deterministic path or by follow-up reuse, also when a
\* last deterministic intent is stored: _call_interpreter returns None
\* without a call, and the turn enters the agentic loop with the window of
\* 6 history turns
C37_AfterBypassAlwaysAgentic ==
  /\ [](ThresholdReached /\ LoopEntered => intentData = None /\ WindowIs(HISTORY_FULL))
  /\ [](ThresholdReached => result.routed # "deterministic")
  /\ [][BypassedStep]_vars

\* a follow-up message with a stored intent, after the threshold was
\* reached: the turn has entered the agentic loop with six history turns
C37_Witness ==
  /\ ThresholdReached
  /\ lastDet # None
  /\ IsFollowupMessage(message)
  /\ ~IsBlank(message)
  /\ LoopEntered
  /\ intentData = None
  /\ Len(history) = 7
  /\ Len(Copied) = 4

\* ---------------------------------------------------------------------------
\* C38: the failure counter is changed only by a step that actually calls
\* the interpreter: a blank message, a bypassed turn and a follow-up that
\* reuses the stored intent leave it alone, so a reuse between two failures
\* does not break the streak; turn by turn it stays within 0..3.

GuardReturns ==
  \/ IsBlank(message)
  \/ InterpreterBypassed(failCount)
  \/ (IsFollowupMessage(message) /\ lastDet # None)

CounterStep ==
  /\ (failCount' # failCount =>
        /\ pc = "gate"
        /\ ~GuardReturns
        /\ interpLog'.issued
        /\ calls'.interpreter = calls.interpreter + 1
        /\ failCount' \in {0, failCount + 1})
  /\ (pc = "gate" /\ GuardReturns =>
        /\ failCount' = failCount
        /\ ~interpLog'.issued
        /\ calls'.interpreter = calls.interpreter)

C38_CounterOnlyByCall ==
  /\ [](failCount \in 0..INTERPRETER_FAIL_THRESHOLD)
  /\ [](failCount = failStreak)
  /\ [][CounterStep]_vars

\* a follow-up reused the stored intent in the middle of a streak of two
\* failures, and the streak is still two
C38_Witness ==
  /\ ReuseReturned
  /\ failCount = 2
  /\ failStreak = 2

\* a store whose tables exist and hold no matching rows
NoMatchingRows == [fails |-> FALSE, rows |-> 0]

\* the gate returned an eligible record of a templated intent whose
\* filters the template can convert
EligibleTemplated ==
  /\ intentData # None
  /\ DeterministicEligible(intentData)
  /\ intentData.intent \in TemplatedIntents
  /\ ~MalformedFilters(intentData.intent, intentData.filters)

AnsweredDeterministically ==
  /\ pc' \in {"done", "yield"}
  /\ result'.routed = "deterministic"
  /\ result'.error = ""
  /\ result'.text # <<>>
  /\ misfireCount' = misfireCount

\* C39: an eligible turn of a templated intent on an empty store is
\* answered by the deterministic path: _route_deterministic followed by
\* _compose_response completes without raising and yields a non-empty
\* text.
C39_EmptyStoreAnswered ==
  [][pc = "route" /\ EligibleTemplated /\ GateStep({NoMatchingRows})
       => AnsweredDeterministically]_vars

\* an inbox_count turn of agent_chat on an empty email_cache has ended with
\* the TypeError of _compose_response
C39_Witness ==
  /\ mode = "chat"
  /\ pc = "raised"
  /\ intentData # None
  /\ intentData.intent = "inbox_count"
  /\ result.error = "TypeError in _compose_response"
  /\ result.text = <<>>

\* C39 for the templated intents other than inbox_count
EmptyStoreAnsweredButInbox ==
  [][(pc = "route" /\ EligibleTemplated /\ GateStep({NoMatchingRows})
        /\ intentData.intent # "inbox_count")
       => (AnsweredDeterministically /\ result'.text = NoDataText)]_vars

\* a spend_total turn on an empty spend_log has been answered
EmptyStoreAnsweredReached ==
  /\ pc = "done"
  /\ intentData # None
  /\ intentData.intent = "spend_total"
  /\ result.routed = "deterministic"
  /\ result.text = NoDataText

====
